---- MODULE Spec2Model ----
(***************************************************************************)
(* A model of the aspen emulator: the 32-bit register file, the CPU        *)
(* dispatch (Cpu::process), the flat memory with its page protection       *)
(* table (memory.rs), the instruction decoder and the fetch-check-execute  *)
(* loop of Emulator::run, driven as the test harness drives it.            *)
(*                                                                         *)
(* A BitSize (u32) is held as a pair <<hi, lo>> of 16-bit limbs, so that   *)
(* every value of the full 32-bit range is representable and all           *)
(* arithmetic is carried out modulo 2^32 exactly as the hardware type does.*)
(***************************************************************************)
EXTENDS Integers, Sequences, FiniteSets, TLC

\* ------------------------------------------------------------------------
\* BitSize arithmetic (src/aspen/src/lib.rs: pub type BitSize = u32)
\* ------------------------------------------------------------------------

Limb == 256 * 256

W(hi, lo) == <<hi, lo>>

Hi(w) == w[1]

Lo(w) == w[2]

Zero == W(0, 0)

One == W(0, 1)

\* BitSize::MAX
BitSizeMax == W(Limb - 1, Limb - 1)

\* a small natural number (below 2^31) as a BitSize
FromNat(n) == W(n \div Limb, n % Limb)

\* u32::wrapping_add
WrappingAdd(x, y) ==
    LET s == Lo(x) + Lo(y)
    IN  W((Hi(x) + Hi(y) + (s \div Limb)) % Limb, s % Limb)

\* u32::wrapping_sub
WrappingSub(x, y) ==
    LET borrow == IF Lo(x) < Lo(y) THEN 1 ELSE 0
    IN  W((Hi(x) - Hi(y) - borrow + Limb) % Limb, (Lo(x) - Lo(y) + Limb) % Limb)

\* TRUE when x + y does not fit in 32 bits (checked_add gives None, and a
\* plain `+` overflows)
AddOverflows(x, y) == Hi(x) + Hi(y) + ((Lo(x) + Lo(y)) \div Limb) >= Limb

\* u32::saturating_sub
SaturatingSub(x, y) ==
    IF Hi(x) < Hi(y) \/ (Hi(x) = Hi(y) /\ Lo(x) < Lo(y)) THEN Zero ELSE WrappingSub(x, y)

\* unsigned comparison of two u32
ULt(x, y) == Hi(x) < Hi(y) \/ (Hi(x) = Hi(y) /\ Lo(x) < Lo(y))

ULe(x, y) == x = y \/ ULt(x, y)

\* `as i32`: the sign bit is bit 15 of the high limb
IsNeg(x) == Hi(x) >= Limb \div 2

\* signed comparison of two u32 reinterpreted as i32
SLt(x, y) ==
    IF IsNeg(x) # IsNeg(y) THEN IsNeg(x) ELSE ULt(x, y)

SLe(x, y) == x = y \/ SLt(x, y)

\* bitwise operations on the low w bits of two limbs (w a power of two),
\* halving the width down to single bits
RECURSIVE LimbBits(_, _, _, _)
LimbBits(op, x, y, w) ==
    IF w = 1
    THEN CASE op = "and" -> IF x = 1 /\ y = 1 THEN 1 ELSE 0
           [] op = "or"  -> IF x = 1 \/ y = 1 THEN 1 ELSE 0
           [] op = "xor" -> IF x # y THEN 1 ELSE 0
    ELSE LimbBits(op, x % (2 ^ (w \div 2)), y % (2 ^ (w \div 2)), w \div 2)
         + (2 ^ (w \div 2))
           * LimbBits(op, x \div (2 ^ (w \div 2)), y \div (2 ^ (w \div 2)), w \div 2)

BitAnd(x, y) == W(LimbBits("and", Hi(x), Hi(y), 16), LimbBits("and", Lo(x), Lo(y), 16))

BitOr(x, y) == W(LimbBits("or", Hi(x), Hi(y), 16), LimbBits("or", Lo(x), Lo(y), 16))

BitXor(x, y) == W(LimbBits("xor", Hi(x), Hi(y), 16), LimbBits("xor", Lo(x), Lo(y), 16))

BitNot(x) == W(Limb - 1 - Hi(x), Limb - 1 - Lo(x))

\* x << 1 on 32 bits
Shl1(x) == W((2 * Hi(x) + (Lo(x) \div (Limb \div 2))) % Limb, (2 * Lo(x)) % Limb)

\* x << n, x >> n (logical) and x >> n (arithmetic) for n in 0..31
ShlN(x, n) ==
    IF n >= 16
    THEN W((Lo(x) * (2 ^ (n - 16))) % Limb, 0)
    ELSE W((Hi(x) * (2 ^ n) + (Lo(x) \div (2 ^ (16 - n)))) % Limb, (Lo(x) * (2 ^ n)) % Limb)

ShrN(x, n) ==
    IF n >= 16
    THEN W(0, Hi(x) \div (2 ^ (n - 16)))
    ELSE W(Hi(x) \div (2 ^ n), (Lo(x) \div (2 ^ n)) + (Hi(x) % (2 ^ n)) * (2 ^ (16 - n)))

SarN(x, n) ==
    IF IsNeg(x) THEN BitNot(ShrN(BitNot(x), n)) ELSE ShrN(x, n)

\* two's complement negation
Neg(x) == WrappingSub(Zero, x)

\* the four bytes of a u32, least significant first
Byte(x, i) == CASE i = 0 -> Lo(x) % 256
                [] i = 1 -> Lo(x) \div 256
                [] i = 2 -> Hi(x) % 256
                [] i = 3 -> Hi(x) \div 256

\* u32::wrapping_mul: schoolbook product of the bytes, columns 0..3 kept
MulCol3(x, y, r0, r1, r2, c) ==
    W(((Byte(x, 0) * Byte(y, 3) + Byte(x, 1) * Byte(y, 2) + Byte(x, 2) * Byte(y, 1)
        + Byte(x, 3) * Byte(y, 0) + c) % 256) * 256 + r2,
      r1 * 256 + r0)

MulCol2(x, y, r0, r1, c) ==
    MulCol3(x, y, r0, r1,
            (Byte(x, 0) * Byte(y, 2) + Byte(x, 1) * Byte(y, 1) + Byte(x, 2) * Byte(y, 0) + c) % 256,
            (Byte(x, 0) * Byte(y, 2) + Byte(x, 1) * Byte(y, 1) + Byte(x, 2) * Byte(y, 0) + c) \div 256)

MulCol1(x, y, r0, c) ==
    MulCol2(x, y, r0,
            (Byte(x, 0) * Byte(y, 1) + Byte(x, 1) * Byte(y, 0) + c) % 256,
            (Byte(x, 0) * Byte(y, 1) + Byte(x, 1) * Byte(y, 0) + c) \div 256)

WrappingMul(x, y) ==
    MulCol1(x, y, (Byte(x, 0) * Byte(y, 0)) % 256, (Byte(x, 0) * Byte(y, 0)) \div 256)

\* unsigned long division of x by y # 0 (restoring, bit 31 first).  The
\* loop state is <<x, q, r, n>>: the dividend bits still to shift in, the
\* quotient and remainder so far and the number of bits left.  A remainder
\* whose doubling needs 33 bits certainly holds the divisor.
DivStep(st, y) ==
    LET r2   == WrappingAdd(Shl1(st[3]), W(0, IF IsNeg(st[1]) THEN 1 ELSE 0))
        fits == IsNeg(st[3]) \/ ULe(y, r2)
    IN  << Shl1(st[1]),
           WrappingAdd(Shl1(st[2]), W(0, IF fits THEN 1 ELSE 0)),
           IF fits THEN WrappingSub(r2, y) ELSE r2,
           st[4] - 1 >>

RECURSIVE DivLoop(_, _)
DivLoop(st, y) ==
    IF st[4] = 0 THEN st
    ELSE DivLoop(DivStep(DivStep(DivStep(DivStep(st, y), y), y), y), y)

UDiv(x, y) == DivLoop(<<x, Zero, Zero, 32>>, y)[2]

URem(x, y) == DivLoop(<<x, Zero, Zero, 32>>, y)[3]

\* magnitude of an i32 held as u32
Abs(x) == IF IsNeg(x) THEN Neg(x) ELSE x

\* i32::wrapping_div for y # 0: truncating division (MIN / -1 wraps to MIN)
IDivWrapping(x, y) ==
    LET q == UDiv(Abs(x), Abs(y))
    IN  IF IsNeg(x) # IsNeg(y) THEN Neg(q) ELSE q

\* i32 remainder for y # 0: the sign follows the dividend
IRemTrunc(x, y) ==
    LET r == URem(Abs(x), Abs(y))
    IN  IF IsNeg(x) THEN Neg(r) ELSE r

\* u32::to_be_bytes and u32::to_le_bytes
ToBeBytes(x) == <<Hi(x) \div 256, Hi(x) % 256, Lo(x) \div 256, Lo(x) % 256>>

ToLeBytes(x) == <<Lo(x) % 256, Lo(x) \div 256, Hi(x) % 256, Hi(x) \div 256>>

\* u32::from_be_bytes and u32::from_le_bytes of a 4-byte array
FromBeBytes(b) == W(b[1] * 256 + b[2], b[3] * 256 + b[4])

FromLeBytes(b) == W(b[4] * 256 + b[3], b[2] * 256 + b[1])

\* the size of a protection page, in bytes
PAGE_SIZE == 4096

PagesPerLimb == Limb \div PAGE_SIZE

\* Memory::page_idx_of
PageIdxOf(addr) == Hi(addr) * PagesPerLimb + (Lo(addr) \div PAGE_SIZE)

\* ------------------------------------------------------------------------
\* Memory (src/aspen/src/memory.rs)
\*
\* data  : the 2^32 bytes, held as the function from the addresses of the
\*         non-zero bytes to their values (every other byte is 0);
\* pages : the 2^20 page masks, held as the list of the range assignments
\*         made since Memory::new (which sets every page to Read|Write); the
\*         mask of a page is the one of the last assignment that covers it.
\* ------------------------------------------------------------------------

Read == "Read"

Write == "Write"

Execute == "Execute"

\* Memory::new: vec![rw; MEM_SIZE / PAGE_SIZE]
NewPageProt == {Read, Write}

NewPages == << >>

NewData == << >>

\* Mmu::new: MEM_SIZE / PAGE_SIZE pages, each Page::default(), whose mask is
\* empty
MmuNewPages == <<[lo |-> 0, hi |-> PagesPerLimb * Limb - 1, prot |-> {}]>>

\* self.pages[idx]
PageProt(pgs, idx) ==
    LET hits == {k \in 1..Len(pgs) : pgs[k].lo <= idx /\ idx <= pgs[k].hi}
    IN  IF hits = {} THEN NewPageProt
        ELSE pgs[CHOOSE k \in hits : \A j \in hits : j <= k].prot

\* one byte of the region: self.data()[addr]
ByteAt(d, addr) == IF addr \in DOMAIN d THEN d[addr] ELSE 0

\* the bytes of the slice data[addr .. addr + n], n small, not crossing the
\* end of the region
BytesAt(d, addr, n) == [i \in 1..n |-> ByteAt(d, WrappingAdd(addr, FromNat(i - 1)))]

\* slice.copy_from_slice(bytes) for the slice that starts at addr
StoreBytes(d, addr, bytes) ==
    LET at(i)   == WrappingAdd(addr, FromNat(i - 1))
        written == {at(i) : i \in 1..Len(bytes)}
        idx(a)  == CHOOSE i \in 1..Len(bytes) : at(i) = a
        val(a)  == IF a \in written THEN bytes[idx(a)] ELSE d[a]
        keep    == {a \in DOMAIN d \cup written : val(a) # 0}
    IN  [a \in keep |-> val(a)]

\* IntoRange: both sides inclusive
RangeOfAddr(addr) == <<addr, addr>>

RangeOfRangeWrapping(start, end) == <<start, WrappingSub(end, One)>>

RangeOfRange(start, end) == <<start, SaturatingSub(end, One)>>

RangeOfRangeFrom(start) == <<start, BitSizeMax>>

RangeOfRangeFull == <<Zero, BitSizeMax>>

RangeOfRangeInclusive(start, end) == <<start, end>>

RangeOfRangeTo(end) == <<Zero, SaturatingSub(end, One)>>

RangeOfRangeToInclusive(end) == <<Zero, end>>

\* the range arguments a caller writes: a, s..e, s.., .., s..=e, ..e, ..=e
RangeArg(form, start, end) == [form |-> form, start |-> start, end |-> end]

\* IntoRange::into_range by the type of the argument
IntoRange(arg) ==
    CASE arg.form = "addr"         -> RangeOfAddr(arg.start)
      [] arg.form = "range"        -> RangeOfRange(arg.start, arg.end)
      [] arg.form = "from"         -> RangeOfRangeFrom(arg.start)
      [] arg.form = "full"         -> RangeOfRangeFull
      [] arg.form = "inclusive"    -> RangeOfRangeInclusive(arg.start, arg.end)
      [] arg.form = "to"           -> RangeOfRangeTo(arg.end)
      [] arg.form = "to_inclusive" -> RangeOfRangeToInclusive(arg.end)

\* the page numbers visited by `for addr in (start..=end).step_by(PAGE_SIZE)`,
\* as the interval <<first, last>>; first > last when the range is empty
SteppedPages(r) ==
    IF ULt(r[2], r[1]) THEN <<1, 0>>
    ELSE <<PageIdxOf(r[1]), PageIdxOf(r[1]) + PageIdxOf(WrappingSub(r[2], r[1]))>>

\* Memory::change_prot: every visited page gets the mask req
ChangeProtPages(pgs, r, req) ==
    LET sp == SteppedPages(r)
    IN  IF sp[1] > sp[2] THEN pgs
        ELSE Append(SelectSeq(pgs, LAMBDA l : ~(sp[1] <= l.lo /\ l.hi <= sp[2])),
                    [lo |-> sp[1], hi |-> sp[2], prot |-> req])

\* a check that lets every access through
CheckProtAllows(pgs, r, req) == [kind |-> "Ok"]

\* Memory::check_prot: the visited pages in ascending order; the first one
\* whose mask does not contain req gives PageFault(!record & req).  The
\* masks are constant between the ends of the assignments, so the first
\* failing page is the first visited page or the start of an assignment.
MemOk == [kind |-> "Ok"]

PageFault(bits) == [kind |-> "PageFault", bits |-> bits]

CheckProt(pgs, r, req) ==
    LET sp   == SteppedPages(r)
        cand == {sp[1]} \cup {pgs[k].lo : k \in 1..Len(pgs)}
                        \cup {pgs[k].hi + 1 : k \in 1..Len(pgs)}
        bad  == {i \in cand : sp[1] <= i /\ i <= sp[2] /\ ~(req \subseteq PageProt(pgs, i))}
    IN  IF bad = {} THEN MemOk
        ELSE PageFault(req \ PageProt(pgs, CHOOSE i \in bad : \A j \in bad : i <= j))

InvalidAddr(size, addr) == [kind |-> "InvalidAddr", size |-> size, addr |-> addr]

Overflow == [kind |-> "Overflow"]

\* Memory::validate_addr
ValidateAddr(pgs, size, addr, prot) ==
    IF size = 0 THEN MemOk
    ELSE IF AddOverflows(addr, FromNat(size)) THEN InvalidAddr(size, addr)
    ELSE CheckProt(pgs, RangeOfRange(addr, addr), prot)

\* the big-endian bytes of the low `size` bytes of val: N::to_be_bytes
ToBeBytesN(val, size) == SubSeq(ToBeBytes(val), 5 - size, 4)

\* N::from_be_bytes, widened to BitSize
FromBeBytesN(b) ==
    FromBeBytes([i \in 1..4 |-> IF i <= 4 - Len(b) THEN 0 ELSE b[i - (4 - Len(b))]])

\* Memory::write::<N>, size = size_of::<N>()
MemoryWrite(d, pgs, addr, size, val) ==
    LET v == ValidateAddr(pgs, size, addr, {Write})
    IN  IF v # MemOk THEN [res |-> v, data |-> d]
        ELSE [res |-> MemOk, data |-> StoreBytes(d, addr, ToBeBytesN(val, size))]

\* Memory::read::<N>
MemoryRead(d, pgs, addr, size) ==
    LET v == ValidateAddr(pgs, size, addr, {Read})
    IN  IF v # MemOk THEN [res |-> v, val |-> Zero]
        ELSE [res |-> MemOk, val |-> FromBeBytesN(BytesAt(d, addr, size))]

\* ------------------------------------------------------------------------
\* Instruction (src/aspen/src/instruction.rs)
\* ------------------------------------------------------------------------

\* Reg::from(byte): the 5 low bits
RegFrom(byte) == byte % 32

\* the (mode, opcode) pairs of the impl_inst! table
KnownOpcodes(mode) ==
    CASE mode = 0 -> (0..11) \cup (32..43)
      [] mode = 1 -> 0..24
      [] mode = 2 -> 0..10
      [] mode = 3 -> 0..3

\* InstructionType::try_from(mode, opcode).is_some()
TryFrom(mode, opcode) == opcode \in KnownOpcodes(mode)

\* the error carrying the opcode where the mode belongs
UnknownInstructionSwapped(mode, opcode) ==
    [kind |-> "UnknownInstruction", mode |-> opcode, opcode |-> mode]

UnknownInstruction(mode, opcode) ==
    [kind |-> "UnknownInstruction", mode |-> mode, opcode |-> opcode]

\* Instruction::from_buf on the 8 bytes b
FromBufImmBigEndian(b) ==
    LET ctrl    == b[1]
        mode    == ctrl \div 64
        has_imm == (ctrl \div 32) % 2 = 1
    IN  IF ~TryFrom(mode, b[2])
        THEN [ok |-> FALSE, err |-> UnknownInstruction(mode, b[2])]
        ELSE [ok |-> TRUE,
              inst |-> [mode |-> mode, op_code |-> b[2], dst |-> RegFrom(ctrl),
                        a |-> RegFrom(b[3]), b |-> RegFrom(b[4]),
                        c |-> IF has_imm THEN RegFrom(b[5]) ELSE 0,
                        d |-> IF has_imm THEN RegFrom(b[6]) ELSE 0,
                        e |-> IF has_imm THEN RegFrom(b[7]) ELSE 0,
                        f |-> IF has_imm THEN RegFrom(b[8]) ELSE 0,
                        has_imm |-> has_imm,
                        imm |-> IF has_imm THEN FromBeBytes(SubSeq(b, 5, 8)) ELSE Zero]]

FromBuf(b) ==
    LET ctrl    == b[1]
        mode    == ctrl \div 64
        has_imm == (ctrl \div 32) % 2 = 1
    IN  IF ~TryFrom(mode, b[2])
        THEN [ok |-> FALSE, err |-> UnknownInstruction(mode, b[2])]
        ELSE [ok |-> TRUE,
              inst |-> [mode |-> mode, op_code |-> b[2], dst |-> RegFrom(ctrl),
                        a |-> RegFrom(b[3]), b |-> RegFrom(b[4]),
                        c |-> IF has_imm THEN RegFrom(b[5]) ELSE 0,
                        d |-> IF has_imm THEN RegFrom(b[6]) ELSE 0,
                        e |-> IF has_imm THEN RegFrom(b[7]) ELSE 0,
                        f |-> IF has_imm THEN RegFrom(b[8]) ELSE 0,
                        has_imm |-> has_imm,
                        imm |-> IF has_imm THEN FromLeBytes(SubSeq(b, 5, 8)) ELSE Zero]]

EncodeImmBigEndian(i) ==
    <<i.mode * 64 + (IF i.has_imm THEN 32 ELSE 0) + i.dst, i.op_code, i.a, i.b>>
    \o (IF i.has_imm THEN ToBeBytes(i.imm) ELSE << >>)

\* an instruction as the assembler lays it out:
\* MMIDDDDD OOOOOOOO 000AAAAA 000BBBBB [ZZZZZZZZ x 4]
Encode(i) ==
    <<i.mode * 64 + (IF i.has_imm THEN 32 ELSE 0) + i.dst, i.op_code, i.a, i.b>>
    \o (IF i.has_imm THEN ToLeBytes(i.imm) ELSE << >>)

\* the size of an encoded instruction
InstSize(i) == IF i.has_imm THEN 8 ELSE 4

\* the offset of the k-th instruction of the program p
OffsetOf(p, k) == 4 * (k - 1) + 4 * Cardinality({j \in 1..(k - 1) : p[j].has_imm})

\* the length of the image of p
ImageLen(p) == OffsetOf(p, Len(p) + 1)

\* the image of p as the function from the addresses of its non-zero bytes
Image(p) ==
    LET cell == {<<k, j>> \in (1..Len(p)) \X (1..8) :
                    j <= InstSize(p[k]) /\ Encode(p[k])[j] # 0}
        at(c)  == FromNat(OffsetOf(p, c[1]) + c[2] - 1)
        of(a)  == CHOOSE c \in cell : at(c) = a
    IN  [a \in {at(c) : c \in cell} |-> Encode(p[of(a)[1]])[of(a)[2]]]

\* ------------------------------------------------------------------------
\* Registers and Cpu (src/aspen/src/cpu.rs)
\* ------------------------------------------------------------------------

NumRegs == 32

Regs == 0..(NumRegs - 1)

RA == 1

SP == 2

\* Registers::default(): every register 0, sp = BitSize::MAX
RegistersDefault == [r \in Regs |-> IF r = SP THEN BitSizeMax ELSE Zero]

\* Registers::get_reg for an index of the register file
GetReg(g, reg) == g[reg]

\* set_reg without the early return for zr
SetRegAnyIndex(g, reg, val) == [g EXCEPT ![reg] = val]

\* Registers::set_reg for an index of the register file: zr is a noop
SetReg(g, reg, val) == IF reg = 0 THEN g ELSE [g EXCEPT ![reg] = val]

\* Registers::set_reg fails with RegError(reg) outside the register file,
\* except for reg = 0, which returns first
RegIndexOk(reg) == reg \in Regs

RegError(reg) == [kind |-> "Reg", reg |-> reg]

UnsupportedInst(i) == [kind |-> "UnsupportedInst", inst |-> i]

NoErr == [kind |-> "None"]

Bool(p) == IF p THEN One ELSE Zero

\* the shift amount the build uses for a shift by b: with overflow checks a
\* shift by 32 or more panics, without them the amount is masked to 5 bits
ShiftPanics(b, checks) == checks /\ (Hi(b) # 0 \/ Lo(b) >= 32)

ShiftAmount(b) == Lo(b) % 32

\* opcodes of mode 1
OpNand == 0
OpOr == 1
OpAnd == 2
OpNor == 3
OpAdd == 4
OpSub == 5
OpXor == 6
OpLsl == 7
OpLsr == 8
OpMul == 9
OpImul == 10
OpDiv == 11
OpIdiv == 12
OpRem == 13
OpIrem == 14
OpMov == 15
OpInc == 16
OpDec == 17
OpSe == 18
OpSne == 19
OpSl == 20
OpSle == 21
OpSg == 22
OpSge == 23
OpAsr == 24

IntMin == W(Limb \div 2, 0)

\* a division that looks at the divisor before the dividend
DivPanicsOnZeroDivisor(av, bv) == bv = Zero

\* div: if a != 0 { a.wrapping_div(b) } else { 0 }
DivPanics(av, bv) == av # Zero /\ bv = Zero

Div(av, bv) == IF av # Zero THEN UDiv(av, bv) ELSE Zero

\* idiv: the same on i32
Idiv(av, bv) == IF av # Zero THEN IDivWrapping(av, bv) ELSE Zero

\* rem: a % b
RemPanics(av, bv) == bv = Zero

Rem(av, bv) == URem(av, bv)

\* irem: (a % b) on i32; i32::MIN % -1 overflows, which panics in every build
IremPanics(av, bv) == bv = Zero \/ (av = IntMin /\ bv = BitSizeMax)

Irem(av, bv) == IRemTrunc(av, bv)

\* whether the two-operand instruction op of mode 1 panics on av, bv
AluPanics(op, av, bv, checks) ==
    CASE op \in {OpLsl, OpLsr, OpAsr} -> ShiftPanics(bv, checks)
      [] op \in {OpDiv, OpIdiv}       -> DivPanics(av, bv)
      [] op = OpRem                   -> RemPanics(av, bv)
      [] op = OpIrem                  -> IremPanics(av, bv)
      [] OTHER                        -> FALSE

\* the value the two-operand instruction op of mode 1 writes to dst
AluVal(op, av, bv) ==
    CASE op = OpNand -> BitNot(BitAnd(av, bv))
      [] op = OpOr   -> BitOr(av, bv)
      [] op = OpAnd  -> BitAnd(av, bv)
      [] op = OpNor  -> BitNot(BitOr(av, bv))
      [] op = OpAdd  -> WrappingAdd(av, bv)
      [] op = OpSub  -> WrappingSub(av, bv)
      [] op = OpXor  -> BitXor(av, bv)
      [] op = OpLsl  -> ShlN(av, ShiftAmount(bv))
      [] op = OpLsr  -> ShrN(av, ShiftAmount(bv))
      [] op = OpMul  -> WrappingMul(av, bv)
      [] op = OpImul -> WrappingMul(av, bv)
      [] op = OpDiv  -> Div(av, bv)
      [] op = OpIdiv -> Idiv(av, bv)
      [] op = OpRem  -> Rem(av, bv)
      [] op = OpIrem -> Irem(av, bv)
      [] op = OpSe   -> Bool(av = bv)
      [] op = OpSne  -> Bool(av # bv)
      [] op = OpSl   -> Bool(SLt(av, bv))
      [] op = OpSle  -> Bool(SLe(av, bv))
      [] op = OpSg   -> Bool(SLt(bv, av))
      [] op = OpSge  -> Bool(SLe(bv, av))
      [] op = OpAsr  -> SarN(av, ShiftAmount(bv))

\* opcodes of mode 2
OpJmp == 0
OpJe == 1
OpJne == 2
OpJl == 3
OpJge == 4
OpJle == 5
OpJg == 6
OpJb == 7
OpJae == 8
OpJbe == 9
OpJa == 10

\* every ordering jump comparing its operands as unsigned values
JumpTakenUnsigned(op, av, bv) ==
    CASE op = OpJe  -> av = bv
      [] op = OpJne -> av # bv
      [] op \in {OpJl, OpJb}   -> ULt(av, bv)
      [] op \in {OpJge, OpJae} -> ULe(bv, av)
      [] op \in {OpJle, OpJbe} -> ULe(av, bv)
      [] op \in {OpJg, OpJa}   -> ULt(bv, av)

\* the condition of the conditional jump op on the operands av, bv
JumpTaken(op, av, bv) ==
    CASE op = OpJe  -> av = bv
      [] op = OpJne -> av # bv
      [] op = OpJl  -> SLt(av, bv)
      [] op = OpJge -> SLe(bv, av)
      [] op = OpJle -> SLe(av, bv)
      [] op = OpJg  -> SLt(bv, av)
      [] op = OpJb  -> ULt(av, bv)
      [] op = OpJae -> ULe(bv, av)
      [] op = OpJbe -> ULe(av, bv)
      [] op = OpJa  -> ULt(bv, av)

\* The outcome of Cpu::process: how the call ended ("Ok", "Err" or "Panic"),
\* the error of an Err, the fields of the Cpu and the bytes of the memory as
\* the call left them, and the values it left in *stop and *clk.
Outcome(out, err, g, gfxv, pcv, d, stp, cyc) ==
    [out |-> out, err |-> err, gp |-> g, gfx |-> gfxv, pc |-> pcv, data |-> d,
     stop |-> stp, cycles |-> FromNat(cyc)]

\* a pc that advances by 4 whatever the instruction
AdvanceByFour(g, gfxv, pcv, d, i, cyc, checks) ==
    Outcome("Ok", NoErr, g, gfxv, WrappingAdd(pcv, FromNat(4)), d, FALSE, cyc)

\* the end of process for the arms that fall out of the match:
\* self.pc += if inst.imm.is_some() { 8 } else { 4 }
\* (the addition panics on overflow in a build with overflow checks)
Advance(g, gfxv, pcv, d, i, cyc, checks) ==
    IF checks /\ AddOverflows(pcv, FromNat(InstSize(i)))
    THEN Outcome("Panic", NoErr, g, gfxv, pcv, d, FALSE, cyc)
    ELSE Outcome("Ok", NoErr, g, gfxv, WrappingAdd(pcv, FromNat(InstSize(i))), d, FALSE, cyc)

\* u32::from_be_bytes([s[3], s[2], s[1], s[0]]) of the four bytes s of a limb
ByteSwap(v) == FromBeBytes(ToLeBytes(v))

\* opcodes of mode 0
OpNop == 0
OpHlt == 1
OpPr == 2
OpEpr == 3
OpTme == 4
OpRdpc == 5
OpKbrd == 6
OpSetgfx == 7
OpDraw == 8
OpSlp == 9
OpRdclk == 10

\* time {reg}, {reg}, {reg}, {reg}: t is the 128-bit time as four 32-bit
\* limbs, most significant first; c and d are the two top bytes of the
\* immediate
Tme(c, d, i, t, checks) ==
    LET cr == Byte(i.imm, 3)
        dr == Byte(i.imm, 2)
        g1 == SetReg(SetReg(c.gp, i.a, ByteSwap(t[4])), i.b, ByteSwap(t[3]))
        g2 == SetReg(g1, cr, ByteSwap(t[2]))
        g3 == SetReg(g2, dr, ByteSwap(t[1]))
    IN  IF cr # 0 /\ ~RegIndexOk(cr)
        THEN Outcome("Err", RegError(cr), g1, c.gfx, c.pc, d, FALSE, 1)
        ELSE IF dr # 0 /\ ~RegIndexOk(dr)
        THEN Outcome("Err", RegError(dr), g2, c.gfx, c.pc, d, FALSE, 1)
        ELSE Advance(g3, c.gfx, c.pc, d, i, 1, checks)

\* FREQ, in microseconds
Fre == 5

\* val.max(fre).div_ceil(fre) as u32, for val > 0 given as its four 16-bit
\* limbs, most significant first: long division by fre, the quotient cut
\* to its low 32 bits
SlpClk(l) ==
    LET r3 == l[1] % Fre
        r2 == (r3 * Limb + l[2]) % Fre
        q1 == (r2 * Limb + l[3]) \div Fre
        r1 == (r2 * Limb + l[3]) % Fre
        q0 == (r1 * Limb + l[4]) \div Fre
        r0 == (r1 * Limb + l[4]) % Fre
    IN  IF r0 = 0 THEN W(q1, q0) ELSE WrappingAdd(W(q1, q0), One)

\* the u64 that slp sleeps for: the immediate, or reg a : reg b
SlpVal(c, i) ==
    IF i.has_imm THEN <<0, 0, Hi(i.imm), Lo(i.imm)>>
    ELSE <<Hi(GetReg(c.gp, i.a)), Lo(GetReg(c.gp, i.a)),
           Hi(GetReg(c.gp, i.b)), Lo(GetReg(c.gp, i.b))>>

\* slp: *clk is set only in a build with the steady-clock feature, and for
\* a value above 0
Slp(c, d, i, checks, steady) ==
    LET same == Advance(c.gp, c.gfx, c.pc, d, i, 1, checks)
    IN  IF steady /\ SlpVal(c, i) # <<0, 0, 0, 0>>
        THEN [same EXCEPT !.cycles = SlpClk(SlpVal(c, i))]
        ELSE same

\* the arms of mode 0
ProcessMode0(c, d, i, t, checks, steady) ==
    LET op  == i.op_code
        same == Advance(c.gp, c.gfx, c.pc, d, i, 1, checks)
    IN  CASE op = OpNop /\ ~i.has_imm -> same
          [] op = OpHlt /\ ~i.has_imm ->
                Outcome("Ok", NoErr, c.gp, c.gfx, c.pc, d, TRUE, 1)
          [] op = OpPr -> same
          [] op = OpEpr ->
                IF ULt(GetReg(c.gp, i.b), GetReg(c.gp, i.a))
                THEN Outcome("Panic", NoErr, c.gp, c.gfx, c.pc, d, FALSE, 1)
                ELSE same
          [] op = OpTme /\ i.has_imm -> Tme(c, d, i, t, checks)
          [] op = OpRdpc /\ ~i.has_imm ->
                Advance(SetReg(c.gp, i.dst, c.pc), c.gfx, c.pc, d, i, 1, checks)
          [] op = OpKbrd /\ ~i.has_imm ->
                Outcome("Panic", NoErr, c.gp, c.gfx, c.pc, d, FALSE, 1)
          [] op = OpSetgfx ->
                Advance(c.gp, IF i.has_imm THEN i.imm ELSE GetReg(c.gp, i.a),
                        c.pc, d, i, 1, checks)
          [] op = OpDraw ->
                Outcome("Panic", NoErr, c.gp, c.gfx, c.pc, d, FALSE, 1)
          [] op = OpSlp -> Slp(c, d, i, checks, steady)
          [] op = OpRdclk ->
                Advance(SetReg(SetReg(c.gp, i.a, c.clk.high), i.b, c.clk.low),
                        c.gfx, c.pc, d, i, 1, checks)
          [] OTHER -> Outcome("Err", UnsupportedInst(i), c.gp, c.gfx, c.pc, d, FALSE, 1)

\* the arms of mode 1
ProcessMode1(c, d, i, checks) ==
    LET op == i.op_code
        av == GetReg(c.gp, i.a)
        bv == IF i.has_imm THEN i.imm ELSE GetReg(c.gp, i.b)
    IN  CASE op = OpMov ->
                Advance(SetReg(c.gp, i.dst, IF i.has_imm THEN i.imm ELSE av),
                        c.gfx, c.pc, d, i, 1, checks)
          [] op = OpInc ->
                Advance(SetReg(c.gp, i.dst, WrappingAdd(av, One)), c.gfx, c.pc, d, i, 1, checks)
          [] op = OpDec ->
                Advance(SetReg(c.gp, i.dst, WrappingSub(av, One)), c.gfx, c.pc, d, i, 1, checks)
          [] OTHER ->
                IF AluPanics(op, av, bv, checks)
                THEN Outcome("Panic", NoErr, c.gp, c.gfx, c.pc, d, FALSE, 1)
                ELSE Advance(SetReg(c.gp, i.dst, AluVal(op, av, bv)),
                             c.gfx, c.pc, d, i, 1, checks)

\* the arms of mode 2
ProcessMode2(c, d, i, checks) ==
    LET target == IF i.has_imm THEN i.imm ELSE GetReg(c.gp, i.dst)
    IN  IF i.op_code = OpJmp \/ JumpTaken(i.op_code, GetReg(c.gp, i.a), GetReg(c.gp, i.b))
        THEN Outcome("Ok", NoErr, c.gp, c.gfx, target, d, FALSE, 1)
        ELSE Advance(c.gp, c.gfx, c.pc, d, i, 1, checks)

\* opcodes of mode 3
OpPush == 0
OpPop == 1
OpCall == 2
OpRet == 3

\* size_of::<BitSize>()
WordSize == 4

\* a push that lays the value out in little-endian order
PushLittleEndian(c, d, i, checks) ==
    LET new_sp == WrappingSub(c.gp[SP], FromNat(4))
    IN  Outcome("Ok", NoErr, [c.gp EXCEPT ![SP] = new_sp], c.gfx,
                WrappingAdd(c.pc, FromNat(4)),
                StoreBytes(d, new_sp, ToLeBytes(GetReg(c.gp, i.a))), FALSE, 2)

\* push {reg}
Push(c, d, i, checks) ==
    LET av     == GetReg(c.gp, i.a)
        old_sp == c.gp[SP]
        new_sp == WrappingSub(old_sp, FromNat(WordSize))
        g1     == [c.gp EXCEPT ![SP] = new_sp]
    IN  IF ULt(old_sp, new_sp) /\ old_sp # Zero
        THEN \* mem[sp..] is shorter than the four bytes copied into it
             Outcome("Panic", NoErr, g1, c.gfx, c.pc, d, FALSE, 1)
        ELSE Advance(g1, c.gfx, c.pc, StoreBytes(d, new_sp, ToBeBytes(av)), i, 2, checks)

\* pop {reg}
Pop(c, d, i, checks) ==
    LET sp == c.gp[SP]
    IN  IF AddOverflows(sp, FromNat(WordSize))
        THEN \* sp + 4 overflows, or wraps to an end below the start
             Outcome("Panic", NoErr, c.gp, c.gfx, c.pc, d, FALSE, 1)
        ELSE Advance(SetReg([c.gp EXCEPT ![SP] = WrappingAdd(sp, FromNat(WordSize))],
                            i.dst, FromBeBytes(BytesAt(d, sp, WordSize))),
                     c.gfx, c.pc, d, i, 2, checks)

\* a call that leaves its own address in ra
CallKeepsPc(c, d, i, checks) ==
    LET new_sp == WrappingSub(c.gp[SP], FromNat(4))
    IN  Outcome("Ok", NoErr, [c.gp EXCEPT ![SP] = new_sp, ![RA] = c.pc], c.gfx,
                IF i.has_imm THEN i.imm ELSE GetReg(c.gp, i.a),
                StoreBytes(d, new_sp, ToBeBytes(c.gp[RA])), FALSE, 3)

\* call {reg} / call {imm}
Call(c, d, i, checks) ==
    LET old_sp == c.gp[SP]
        new_sp == WrappingSub(old_sp, FromNat(WordSize))
        g1     == [c.gp EXCEPT ![SP] = new_sp]
        d1     == StoreBytes(d, new_sp, ToBeBytes(c.gp[RA]))
        jmp    == IF i.has_imm THEN i.imm ELSE GetReg(g1, i.a)
        size   == FromNat(InstSize(i))
    IN  IF ULt(old_sp, new_sp)
        THEN \* mem[sp..old_sp] starts above its end
             Outcome("Panic", NoErr, g1, c.gfx, c.pc, d, FALSE, 1)
        ELSE IF checks /\ AddOverflows(c.pc, size)
        THEN Outcome("Panic", NoErr, [g1 EXCEPT ![RA] = c.pc], c.gfx, c.pc, d1, FALSE, 1)
        ELSE Outcome("Ok", NoErr, [g1 EXCEPT ![RA] = WrappingAdd(c.pc, size)],
                     c.gfx, jmp, d1, FALSE, 3)

\* ret
Ret(c, d, i, checks) ==
    LET sp == c.gp[SP]
    IN  IF AddOverflows(sp, FromNat(WordSize))
        THEN Outcome("Panic", NoErr, c.gp, c.gfx, c.gp[RA], d, FALSE, 1)
        ELSE Outcome("Ok", NoErr,
                     [c.gp EXCEPT ![SP] = WrappingAdd(sp, FromNat(WordSize)),
                                  ![RA] = FromBeBytes(BytesAt(d, sp, WordSize))],
                     c.gfx, c.gp[RA], d, FALSE, 2)

\* the arms of mode 3
ProcessMode3(c, d, i, checks) ==
    CASE i.op_code = OpPush -> Push(c, d, i, checks)
      [] i.op_code = OpPop  -> Pop(c, d, i, checks)
      [] i.op_code = OpCall -> Call(c, d, i, checks)
      [] i.op_code = OpRet  -> Ret(c, d, i, checks)

\* Cpu::process(inst, mem, stop, clk) on the Cpu c and the bytes d.  t is
\* the reading of the system clock; checks tells whether the build carries
\* overflow checks.
Process(c, d, i, t, checks, steady) ==
    CASE i.mode = 0 -> ProcessMode0(c, d, i, t, checks, steady)
      [] i.mode = 1 -> ProcessMode1(c, d, i, checks)
      [] i.mode = 2 -> ProcessMode2(c, d, i, checks)
      [] i.mode = 3 -> ProcessMode3(c, d, i, checks)

\* ------------------------------------------------------------------------
\* Emulator (src/aspen/src/emulator.rs)
\* ------------------------------------------------------------------------

WrongSize(n) == [kind |-> "WrongSize", n |-> n]

\* the number of bytes of &self.mem[pc..], up to the 8 an instruction needs
ViewLen(pcv) ==
    IF Hi(pcv) = Limb - 1 /\ Lo(pcv) > Limb - 8 THEN Limb - Lo(pcv) ELSE 8

\* Instruction::from_slice(view): a view shorter than the encoding fails
\* with WrongSize, any other is decoded by from_buf
FromSlice(d, pcv) ==
    LET n   == ViewLen(pcv)
        buf == [k \in 1..8 |-> IF k <= n THEN ByteAt(d, WrappingAdd(pcv, FromNat(k - 1))) ELSE 0]
    IN  IF n < 4 \/ (n < 8 /\ (buf[1] \div 32) % 2 = 1)
        THEN [ok |-> FALSE, err |-> WrongSize(n)]
        ELSE FromBuf(buf)

\* Emulator::next_inst
NextInst(d, pcv) == FromSlice(d, pcv)

\* cpu.clk += clk as u64, on the two 32-bit halves of the u64
\* cpu.clk += 1, whatever the instruction cost
ClkAddOne(k, n) ==
    [high |-> IF k.low = BitSizeMax THEN WrappingAdd(k.high, One) ELSE k.high,
     low  |-> WrappingAdd(k.low, One)]

ClkAdd(k, n) ==
    LET low == WrappingAdd(k.low, n)
    IN  [high |-> IF AddOverflows(k.low, n) THEN WrappingAdd(k.high, One) ELSE k.high,
         low  |-> low]

EmuError(from, e) == [from |-> from, e |-> e]

NoInst ==
    [mode |-> 0 - 1, op_code |-> 0, dst |-> 0, a |-> 0, b |-> 0, c |-> 0, d |-> 0,
     e |-> 0, f |-> 0, has_imm |-> FALSE, imm |-> Zero]

\* One iteration of the loop of Emulator::run on the Cpu c, the bytes d and
\* the page masks pgs: the instruction decoded (NoInst when decoding
\* failed), how the iteration left run ("Running" when the loop goes on),
\* and the state it left.
Iteration(c, d, pgs, t, checks, steady) ==
    LET fetched == NextInst(d, c.pc)
        exec    == CheckProt(pgs, RangeOfAddr(c.pc), {Execute})
        keep(i, ph, out, err) ==
            [inst |-> i, phase |-> ph, out |-> out, err |-> err, gp |-> c.gp,
             gfx |-> c.gfx, pc |-> c.pc, clk |-> c.clk, data |-> d, stop |-> FALSE]
        done(i, o) ==
            [inst |-> i,
             phase |-> IF o.out = "Panic" THEN "Panicked"
                       ELSE IF o.out = "Err" \/ o.stop THEN "Returned" ELSE "Running",
             out |-> IF o.out = "Ok" /\ ~o.stop THEN "None" ELSE o.out,
             err |-> IF o.out = "Err" THEN EmuError("Cpu", o.err) ELSE NoErr,
             gp |-> o.gp, gfx |-> o.gfx, pc |-> o.pc,
             clk |-> IF o.out = "Ok" /\ ~o.stop THEN ClkAdd(c.clk, o.cycles) ELSE c.clk,
             data |-> o.data, stop |-> o.stop]
    IN  IF ~fetched.ok
        THEN keep(NoInst, "Returned", "Err", EmuError("Inst", fetched.err))
        ELSE IF exec # MemOk
        THEN keep(fetched.inst, "Returned", "Err", EmuError("Mem", exec))
        ELSE done(fetched.inst, Process(c, d, fetched.inst, t, checks, steady))

\* Emulator::write_program: the image replaces the first len bytes, and the
\* pages of ..len.next_multiple_of(PAGE_SIZE) become Execute|Read
WriteProgramData(d, p) ==
    LET img == Image(p)
        len == ImageLen(p)
        old == {a \in DOMAIN d : ~(Hi(a) = 0 /\ Lo(a) < len)}
    IN  [a \in old \cup DOMAIN img |-> IF a \in DOMAIN img THEN img[a] ELSE d[a]]

NextMultipleOf(n, m) == ((n + m - 1) \div m) * m

WriteProgramPages(pgs, p) ==
    ChangeProtPages(pgs, RangeOfRangeTo(FromNat(NextMultipleOf(ImageLen(p), PAGE_SIZE))),
                    {Execute, Read})

\* ------------------------------------------------------------------------
\* Programs: the assembly the runs of the model load
\* ------------------------------------------------------------------------

ZR == 0
T0 == 5
T1 == 6
T2 == 7
T3 == 8
S0 == 12

\* an instruction without / with an immediate
InstR(mode, op, dst, ra, rb) ==
    [mode |-> mode, op_code |-> op, dst |-> dst, a |-> ra, b |-> rb,
     has_imm |-> FALSE, imm |-> Zero]

InstI(mode, op, dst, ra, rb, imm) ==
    [mode |-> mode, op_code |-> op, dst |-> dst, a |-> ra, b |-> rb,
     has_imm |-> TRUE, imm |-> imm]

Hlt == InstR(0, OpHlt, 0, 0, 0)

Nop == InstR(0, OpNop, 0, 0, 0)

MovI(dst, v) == InstI(1, OpMov, dst, 0, 0, v)

MovR(dst, ra) == InstR(1, OpMov, dst, ra, 0)

\* the program the harness assembles: the source followed by hlt
WithHlt(code) == code \o <<Hlt>>

Prog(family, form, ops, regs, vals, code) ==
    [family |-> family, form |-> form, ops |-> ops, regs |-> regs, vals |-> vals,
     code |-> WithHlt(code)]

\* operand pairs for the two-operand instructions
OperandPairs ==
    { <<Zero, Zero>>, <<Zero, One>>, <<Zero, BitSizeMax>>, <<Zero, IntMin>>,
      <<One, Zero>>, <<IntMin, Zero>>, <<W(0, 7), W(0, 2)>>, <<W(65535, 65529), W(0, 2)>>,
      <<IntMin, BitSizeMax>>, <<BitSizeMax, One>>, <<One, W(0, 31)>>, <<One, W(0, 32)>>,
      <<IntMin, One>>, <<W(4660, 22136), W(0, 61680)>>, <<W(0, 5), W(0, 5)>>,
      <<BitSizeMax, BitSizeMax>> }

\* mov t0, v0 ; mov t1, v1 ; op dst, t0, t1      (register form)
\* mov t0, v0 ; mov t1, v1 ; op dst, t0, v1      (immediate form)
AluProg(op, dst, imm, v) ==
    Prog("alu", IF imm THEN "imm" ELSE "reg", <<op>>, <<dst>>, v,
         <<MovI(T0, v[1]), MovI(T1, v[2]),
           IF imm THEN InstI(1, op, dst, T0, 0, v[2]) ELSE InstR(1, op, dst, T0, T1)>>)

AluProgs ==
    { AluProg(op, T1, imm, v) : op \in 0..24, imm \in BOOLEAN, v \in OperandPairs }
    \cup { AluProg(op, ZR, imm, <<W(0, 7), W(0, 2)>>) : op \in 0..24, imm \in BOOLEAN }

\* mov t0, v0 ; mov t1, v1 ; mov t2, END ; jcc t2, t0, t1 ; mov s0, 1 ; END: hlt
\* mov t0, v0 ; mov t1, v1 ; mov t2, END ; jcc t0, t1, END ; mov s0, 1 ; END: hlt
JumpCode(op, imm, v, end) ==
    <<MovI(T0, v[1]), MovI(T1, v[2]), MovI(T2, end),
      IF imm THEN InstI(2, op, 0, T0, T1, end) ELSE InstR(2, op, T2, T0, T1),
      MovI(S0, One)>>

JumpProg(op, imm, v) ==
    LET end == FromNat(ImageLen(JumpCode(op, imm, v, Zero)))
    IN  Prog("jump", IF imm THEN "imm" ELSE "reg", <<op>>, <<T2>>, v \o <<end>>,
             JumpCode(op, imm, v, end))

JumpProgs == { JumpProg(op, imm, v) : op \in 0..10, imm \in BOOLEAN, v \in OperandPairs }

\* the deepest stack the push/pop programs build
MaxPush == 2

\* the values sp holds before the first push
StackTops == {BitSizeMax, W(0, 8192), Zero}

PushSources == {T0, T1, SP}

PopDests == {T2, T3, ZR, SP}

PushValA == W(4660, 22136)

PushValB == W(39612, 57072)

\* mov sp, s ; mov t0, A ; mov t1, B ; push r_1 .. push r_n ; pop d_n .. pop d_1
PushPopProg(s, r, d) ==
    Prog("pushpop", "reg", << >>, r \o d, <<s>>,
         <<MovI(SP, s), MovI(T0, PushValA), MovI(T1, PushValB)>>
         \o [k \in 1..Len(r) |-> InstR(3, OpPush, 0, r[k], 0)]
         \o [k \in 1..Len(d) |-> InstR(3, OpPop, d[Len(d) + 1 - k], 0, 0)])

PushPopProgs ==
    UNION { { PushPopProg(s, r, d) :
                s \in StackTops, r \in [1..n -> PushSources], d \in [1..n -> PopDests] } :
            n \in 1..MaxPush }

\* mov ra, v ; mov sp, s ; mov t0, F ; call t0 | call F ; jmp END ; F: ret ; END: hlt
CallCode(imm, v, s, target, end) ==
    <<MovI(RA, v), MovI(SP, s), MovI(T0, target),
      IF imm THEN InstI(3, OpCall, 0, 0, 0, target) ELSE InstR(3, OpCall, 0, T0, 0),
      InstI(2, OpJmp, 0, 0, 0, end), InstR(3, OpRet, 0, 0, 0)>>

CallProg(imm, v, s) ==
    LET blank  == CallCode(imm, v, s, Zero, Zero)
        target == FromNat(OffsetOf(blank, 6))
        end    == FromNat(ImageLen(blank))
    IN  Prog("call", IF imm THEN "imm" ELSE "reg", << >>, << >>, <<v, s, target, end>>,
             CallCode(imm, v, s, target, end))

CallProgs ==
    { CallProg(imm, v, s) :
        imm \in BOOLEAN, v \in {Zero, W(57005, 48879)}, s \in StackTops \cup {W(0, 2)} }

\* opcodes of the loads and stores of mode 0
OpLd == 32
OpLdw == 33
OpLdb == 34
OpStr == 38
OpStrw == 39
OpStrb == 40
OpDbg == 11

TestAddr == W(4660, 22136)

Named(name, code) == Prog("misc", name, << >>, << >>, << >>, code)

\* the programs of src/aspen/src/emulator/tests.rs, and one program for each
\* of the remaining instructions
MiscProgs ==
    { Named("registers", [k \in 1..NumRegs |-> MovI(k - 1, FromNat(IF k = 1 THEN 42 ELSE k - 1))]),
      Named("mov", <<MovI(T0, TestAddr), MovR(T1, T0)>>),
      Named("rdclk", <<MovR(ZR, ZR), MovR(ZR, ZR), InstR(3, OpPush, 0, T0, 0),
                       InstR(3, OpPop, T0, 0, 0), InstR(0, OpRdclk, 0, T0, T1)>>),
      Named("ld", <<MovI(T0, TestAddr), InstI(0, OpStr, T0, 0, 0, W(21045, 22136)),
                    InstR(0, OpLd, T1, T0, 0)>>),
      Named("ldw", <<MovI(T0, TestAddr), InstI(0, OpStrw, T0, 0, 0, W(0, 22136)),
                     InstR(0, OpLdw, T1, T0, 0)>>),
      Named("ldb", <<MovI(T0, BitSizeMax), InstI(0, OpStrb, T0, 0, 0, W(0, 120)),
                     InstR(0, OpLdb, T1, T0, 0)>>),
      Named("ld_only", <<MovI(T0, TestAddr), InstR(0, OpLd, T1, T0, 0)>>),
      Named("ldw_imm", <<InstI(0, OpLdw, T1, 0, 0, TestAddr)>>),
      Named("ldb_only", <<MovI(T0, TestAddr), InstR(0, OpLdb, T1, T0, 0)>>),
      Named("str_reg", <<MovI(T0, TestAddr), MovI(T1, W(21045, 22136)),
                         InstR(0, OpStr, T0, T1, 0)>>),
      Named("tme", <<InstI(0, OpTme, 0, T0, T1, W(T2 * 256 + T3, 0))>>),
      Named("tme_low", <<InstI(0, OpTme, 0, T0, T1, W(0, T3 * 256 + T2))>>),
      Named("tme_reg", <<InstI(0, OpTme, 0, T0, T1, W(33 * 256 + T3, 0))>>),
      Named("tme_noimm", <<InstR(0, OpTme, 0, T0, T1)>>),
      Named("rdpc", <<InstR(0, OpNop, 0, 0, 0), InstR(0, OpRdpc, T0, 0, 0)>>),
      Named("setgfx_imm", <<InstI(0, OpSetgfx, 0, 0, 0, W(1, 0))>>),
      Named("setgfx_reg", <<MovI(T0, W(2, 0)), InstR(0, OpSetgfx, 0, T0, 0)>>),
      Named("nop_imm", <<InstI(0, OpNop, 0, 0, 0, One)>>),
      Named("hlt_imm", <<InstI(0, OpHlt, 0, 0, 0, One)>>),
      Named("hlt_reg", <<MovI(T0, W(0, 7)), InstR(0, OpHlt, T0, T0, 0)>>),
      Named("exit_code", <<MovI(T0, W(0, 5)), MovR(T1, T0), InstR(0, OpHlt, T1, T1, 0)>>),
      Named("pr", <<MovI(T1, W(0, 4)), InstR(0, OpPr, 0, T0, T1)>>),
      Named("epr", <<MovI(T1, W(0, 4)), InstR(0, OpEpr, 0, T0, T1)>>),
      Named("epr_rev", <<MovI(T0, W(0, 4)), InstR(0, OpEpr, 0, T0, T1)>>),
      Named("slp", <<InstI(0, OpSlp, 0, 0, 0, W(0, 5))>>),
      Named("slp_reg", <<MovI(T1, W(0, 5)), InstR(0, OpSlp, 0, T0, T1)>>),
      Named("push_pop_wrap", <<MovI(SP, Zero), MovI(T0, W(43707, 52445)),
                               InstR(3, OpPush, 0, T0, 0), InstR(3, OpPop, T1, 0, 0)>>),
      Named("slp_long", <<InstI(0, OpSlp, 0, 0, 0, W(0, 12))>>),
      Named("slp_zero", <<InstI(0, OpSlp, 0, 0, 0, Zero)>>),
      Named("slp_wide", <<MovI(T0, W(0, 5)), InstR(0, OpSlp, 0, T0, T1)>>),
      Named("kbrd", <<InstR(0, OpKbrd, T0, 0, 0)>>),
      Named("draw", <<InstR(0, OpDraw, 0, 0, 0)>>),
      Named("dbg", <<InstR(0, OpDbg, 0, 0, 0)>>),
      Named("high_bits", <<InstI(1, OpAdd, T0, T0 + 96, T1 + 160, W(59045, 25925)),
                           InstR(1, OpMov, T1, T0 + 224, 255)>>),
      Named("pld", <<InstR(0, 35, T0, T1, 0)>>),
      Named("pstr", <<InstI(0, 43, T0, 0, 0, TestAddr)>>),
      Named("unknown0", <<InstR(0, 48, 0, 0, 0)>>),
      Named("unknown1", <<InstR(1, 25, T0, T0, T1)>>),
      Named("unknown3", <<InstI(3, 4, 0, 0, 0, One)>>),
      Named("unknown_after", <<MovI(T0, TestAddr), InstR(3, OpPush, 0, T0, 0),
                               InstR(2, 11, T0, T0, T0)>>),
      Named("push_low", <<MovI(SP, W(0, 2)), InstR(3, OpPush, 0, T0, 0)>>),
      Named("pop_top", <<MovI(SP, W(Limb - 1, Limb - 3)), InstR(3, OpPop, T0, 0, 0)>>),
      Named("ret_top", <<MovI(RA, W(0, 64)), InstR(3, OpRet, 0, 0, 0)>>),
      Named("jmp_top", <<InstI(2, OpJmp, 0, 0, 0, W(Limb - 1, Limb - 4))>>),
      Named("jmp_end", <<InstI(2, OpJmp, 0, 0, 0, W(Limb - 1, Limb - 2))>>),
      Named("jmp_far", <<InstI(2, OpJmp, 0, 0, 0, W(0, 2 * PAGE_SIZE))>>) }

\* the programs of test_prot, which run behind a handler
ProtProgs ==
    { Prog("prot", "low", << >>, << >>, << >>,
           <<MovI(T0, Zero), InstI(0, OpStrb, T0, 0, 0, Zero)>>),
      Prog("prot", "high", << >>, << >>, << >>,
           <<MovI(T0, TestAddr), InstI(0, OpStrb, T0, 0, 0, Zero)>>) }

\* a jump to a mov whose first word ends page 0 and whose immediate begins
\* page 1
StraddleProgs ==
    { Prog("prot", "straddle", << >>, << >>, << >>,
           [k \in 1..(PAGE_SIZE \div 4 - 1) |->
              IF k = 1 THEN InstI(2, OpJmp, 0, 0, 0, W(0, PAGE_SIZE - 4))
              ELSE IF k < PAGE_SIZE \div 4 - 1 THEN Nop
              ELSE MovI(T0, W(258, 772))]) }

Programs == AluProgs \cup JumpProgs \cup PushPopProgs \cup CallProgs \cup MiscProgs \cup ProtProgs

\* ------------------------------------------------------------------------
\* The run of one program, as the harness of src/aspen/tests/emu.rs drives
\* it: Emulator::new(&[]), write_program(source + hlt), the handler f, run().
\* ------------------------------------------------------------------------

\* the most calls a handler makes on the memory before run()
MaxCalls == 2

\* the cycle count at which the model stops following a run
MaxClk == 40

\* the readings of the system clock: four 32-bit limbs, most significant first
Times ==
    { <<Zero, Zero, Zero, Zero>>,
      <<Zero, Zero, W(6389, 4660), W(43981, 61185)>>,
      <<W(257, 515), W(1029, 1543), W(2057, 2571), W(3085, 3599)>> }

\* the arguments of the handlers' calls
HandlerRanges ==
    { RangeArg("range", Zero, W(0, 100)), RangeArg("addr", TestAddr, TestAddr),
      RangeArg("full", Zero, Zero), RangeArg("range", W(0, 100), W(0, 4196)),
      RangeArg("inclusive", W(0, 4096), W(0, 8192)) }

\* the ranges a handler's check_prot is given: those, and the other forms
HandlerProbes ==
    HandlerRanges \cup
    { RangeArg("to", Zero, W(0, 100)), RangeArg("to", Zero, Zero),
      RangeArg("range", Zero, Zero), RangeArg("range", W(0, 5), Zero),
      RangeArg("from", W(0, 4096), Zero), RangeArg("to_inclusive", Zero, W(0, 8192)),
      RangeArg("range", BitSizeMax, BitSizeMax), RangeArg("to", Zero, BitSizeMax) }

HandlerMasks == { {}, {Read}, {Read, Write} }

NoProg == [family |-> "none", form |-> "", ops |-> << >>, regs |-> << >>, vals |-> << >>,
           code |-> << >>]

\* the images a handler writes over the one loaded: none, one of two
\* instructions, and one of 1025 nops and a hlt, which fills two pages
HandlerImages ==
    { [NoProg EXCEPT !.family = "prot", !.form = "empty"],
      [NoProg EXCEPT !.family = "prot", !.form = "short", !.code = <<MovI(T0, One), Hlt>>],
      [NoProg EXCEPT !.family = "prot", !.form = "two_pages",
                     !.code = [k \in 1..(PAGE_SIZE \div 4 + 2) |->
                                 IF k <= PAGE_SIZE \div 4 + 1 THEN Nop ELSE Hlt]] }

\* the masks a handler's check_prot requires
HandlerReqs == { {Read}, {Read, Write}, {Write, Execute} }

HandlerAddrs == { Zero, TestAddr, W(Limb - 1, Limb - 3), BitSizeMax }

HandlerSizes == {1, 2, 4}

HandlerVal == W(21045, 22136)

VARIABLES
    gp,      \* Cpu::gp, the 32 registers
    gfx,     \* Cpu::gfx
    pc,      \* Cpu::pc
    clk,     \* Cpu::clk, as its two 32-bit halves
    data,    \* Memory::data
    pages,   \* Memory::pages
    stop,    \* the local `stop` of Emulator::run
    inst,    \* the instruction decoded by the last iteration of run
    phase,   \* "Idle", "Loaded", "Running", "Returned" or "Panicked"
    result,  \* what run() returned: [out, err, val]
    prog,    \* the program loaded
    prev,    \* gp and pc when the last iteration began, and the build and clock it saw
    ret,     \* the last call a handler made on the memory, and its result
    calls,   \* the number of calls the handler has made
    mem,     \* the bytes of the Mmu's Memory (mmu/memory.rs)
    mmu_pages, \* Mmu::pages, the page masks of the Mmu
    mon      \* the monitor: its thread, its two channels and its controller

vars == <<gp, gfx, pc, clk, data, pages, stop, inst, phase, result, prog, prev, ret, calls,
          mem, mmu_pages, mon>>

NoCall == [call |-> "none", arg |-> RangeArg("none", Zero, Zero), range |-> <<Zero, Zero>>, mask |-> {}, addr |-> Zero,
           size |-> 0, val |-> Zero, res |-> MemOk]

\* no monitor: Emulator::new creates none
NoMonitor ==
    [thr |-> "none", ctl |-> "idle", req |-> << >>, rep |-> 0, addr |-> Zero,
     vram_base |-> Zero, vram |-> << >>,
     args |-> [width |-> 0, height |-> 0, fps |-> 0], cmds |-> 0, sent |-> 0, copied |-> 0,
     finished |-> 0, returned |-> 0]

\* the () that the Ok of run() carries
Unit == << >>

NoResult == [out |-> "None", err |-> NoErr, val |-> Unit]

\* Emulator::new(&[]): Cpu::default(), Memory::new(), write_program(&[])
Init ==
    /\ gp = RegistersDefault
    /\ gfx = Zero
    /\ pc = Zero
    /\ clk = [high |-> Zero, low |-> Zero]
    /\ data = WriteProgramData(NewData, << >>)
    /\ pages = WriteProgramPages(NewPages, << >>)
    /\ stop = FALSE
    /\ inst = NoInst
    /\ phase = "Idle"
    /\ result = NoResult
    /\ prog = NoProg
    /\ prev = [gp |-> RegistersDefault, pc |-> Zero, steady |-> FALSE,
               time |-> <<Zero, Zero, Zero, Zero>>]
    /\ ret = NoCall
    /\ calls = 0
    /\ mem = NewData /\ mmu_pages = MmuNewPages
    /\ mon = NoMonitor

\* guard.write_program(&data)
Load(p) ==
    /\ phase = "Idle"
    /\ prog' = p
    /\ data' = WriteProgramData(data, p.code)
    /\ pages' = WriteProgramPages(pages, p.code)
    /\ phase' = "Loaded"
    /\ UNCHANGED <<mem, mmu_pages, mon, gp, gfx, pc, clk, stop, inst, result, prev, ret, calls>>

InHandler == phase = "Loaded" /\ prog.family = "prot" /\ calls < MaxCalls

\* a handler's mem.change_prot(range, mask)
ChangeProt(r, m) ==
    /\ InHandler
    /\ pages' = ChangeProtPages(pages, IntoRange(r), m)
    /\ ret' = [NoCall EXCEPT !.call = "change_prot", !.arg = r, !.range = IntoRange(r),
                             !.mask = m]
    /\ calls' = calls + 1
    /\ UNCHANGED <<mem, mmu_pages, mon, gp, gfx, pc, clk, data, stop, inst, phase, result, prog, prev>>

\* a handler's emu.write_program(bytes), which replaces the image loaded
WriteProgram(p) ==
    /\ InHandler
    /\ prog' = p
    /\ data' = WriteProgramData(data, p.code)
    /\ pages' = WriteProgramPages(pages, p.code)
    /\ ret' = [NoCall EXCEPT !.call = "write_program"]
    /\ calls' = calls + 1
    /\ UNCHANGED <<mem, mmu_pages, mon, gp, gfx, pc, clk, stop, inst, phase, result, prev>>

\* a handler's mem.check_prot(range, req)
CheckProtCall(r, req) ==
    /\ InHandler
    /\ ret' = [NoCall EXCEPT !.call = "check_prot", !.arg = r, !.range = IntoRange(r),
                             !.mask = req, !.res = CheckProt(pages, IntoRange(r), req)]
    /\ calls' = calls + 1
    /\ UNCHANGED <<mem, mmu_pages, mon, gp, gfx, pc, clk, data, pages, stop, inst, phase, result, prog, prev>>

\* a handler's mem.write::<N>(addr, val), size_of::<N>() = size
Write_(addr, size, val) ==
    /\ InHandler
    /\ \E w \in {MemoryWrite(data, pages, addr, size, val)} :
          /\ data' = w.data
          /\ ret' = [NoCall EXCEPT !.call = "write", !.addr = addr, !.size = size,
                                   !.val = val, !.res = w.res]
    /\ calls' = calls + 1
    /\ UNCHANGED <<mem, mmu_pages, mon, gp, gfx, pc, clk, pages, stop, inst, phase, result, prog, prev>>

\* a handler's mem.read::<N>(addr)
Read_(addr, size) ==
    /\ InHandler
    /\ \E r \in {MemoryRead(data, pages, addr, size)} :
          ret' = [NoCall EXCEPT !.call = "read", !.addr = addr, !.size = size,
                                !.val = r.val, !.res = r.res]
    /\ calls' = calls + 1
    /\ UNCHANGED <<mem, mmu_pages, mon, gp, gfx, pc, clk, data, pages, stop, inst, phase, result, prog, prev>>

\* SystemTime::now() is read by the tme arm alone
ClockReadings(d, pcv) ==
    IF ByteAt(d, pcv) \div 64 = 0 /\ ByteAt(d, WrappingAdd(pcv, One)) = OpTme
    THEN Times ELSE {<<Zero, Zero, Zero, Zero>>}

\* the steady-clock feature of the build changes the state in the slp arm
\* alone
SteadyClock(d, pcv) ==
    IF ByteAt(d, pcv) \div 64 = 0 /\ ByteAt(d, WrappingAdd(pcv, One)) = OpSlp
    THEN BOOLEAN ELSE {FALSE}

ClkBelow(k, n) == k.high = Zero /\ Hi(k.low) = 0 /\ Lo(k.low) < n

\* one iteration of the loop of guard.run(); the first one follows `stop = false`
RunStep ==
    /\ phase \in {"Loaded", "Running"}
    /\ ClkBelow(clk, MaxClk)
    /\ \E t \in ClockReadings(data, pc), checks \in BOOLEAN, steady \in SteadyClock(data, pc) :
       \E o \in {Iteration([gp |-> gp, gfx |-> gfx, pc |-> pc, clk |-> clk],
                           data, pages, t, checks, steady)} :
          /\ gp' = o.gp
          /\ gfx' = o.gfx
          /\ pc' = o.pc
          /\ clk' = o.clk
          /\ data' = o.data
          /\ stop' = o.stop
          /\ inst' = o.inst
          /\ phase' = o.phase
          /\ result' = [out |-> o.out, err |-> o.err, val |-> Unit]
          /\ prev' = [gp |-> gp, pc |-> pc, steady |-> steady, time |-> t]
    /\ UNCHANGED <<mem, mmu_pages, mon, pages, prog, ret, calls>>

Next ==
    \/ \E p \in Programs : Load(p)
    \/ \E p \in HandlerImages : WriteProgram(p)
    \/ \E r \in HandlerRanges, m \in HandlerMasks : ChangeProt(r, m)
    \/ \E r \in HandlerProbes, req \in HandlerReqs : CheckProtCall(r, req)
    \/ \E addr \in HandlerAddrs, size \in HandlerSizes : Write_(addr, size, HandlerVal)
    \/ \E addr \in HandlerAddrs, size \in HandlerSizes : Read_(addr, size)
    \/ RunStep

Spec == Init /\ [][Next]_vars

\* ------------------------------------------------------------------------
\* The Mmu's memory (src/aspen/src/mmu/memory.rs) and the monitor
\* (src/aspen/src/cpu/monitor.rs): a thread that shares the Mmu with its
\* controller and talks to it over two channels
\* ------------------------------------------------------------------------

\* Memory::slice(start..=end): the length of the slice that begins at start
SliceLen(start, end) == SaturatingSub(end, SaturatingSub(start, One))

\* `data.iter().zip(buf)`: the leading bytes of buf that meet a byte of the
\* slice
Zipped(start, end, buf) ==
    LET l == SliceLen(start, end)
    IN  IF Hi(l) > 0 \/ Lo(l) >= Len(buf) THEN buf ELSE SubSeq(buf, 1, Lo(l))

\* addr.checked_add(len.saturating_sub(1)): the last address of an access
LastAddr(addr, len) == WrappingAdd(addr, FromNat(IF len = 0 THEN 0 ELSE len - 1))

LastAddrOverflows(addr, len) == AddOverflows(addr, FromNat(IF len = 0 THEN 0 ELSE len - 1))

\* N::to_le_bytes for an N of n bytes: the low n bytes of v, least
\* significant first
ToLeBytesN(v, n) == SubSeq(ToLeBytes(v), 1, n)

\* N::from_le_bytes, widened to BitSize
FromLeBytesN(b) == FromLeBytes([k \in 1..4 |-> IF k <= Len(b) THEN b[k] ELSE 0])

\* Memory::memwrite(addr, buf)
Memwrite(m, addr, buf) ==
    IF LastAddrOverflows(addr, Len(buf)) THEN [res |-> Overflow, mem |-> m]
    ELSE [res |-> MemOk,
          mem |-> StoreBytes(m, addr, Zipped(addr, LastAddr(addr, Len(buf)), buf))]

\* Memory::memcpy(addr, buf): `rep movsb` moves buf.len() bytes on x86_64,
\* the loop of the other targets moves the zipped ones
Memcpy(m, addr, buf, x86) ==
    IF LastAddrOverflows(addr, Len(buf)) THEN [res |-> Overflow, buf |-> buf]
    ELSE LET n == IF x86 THEN Len(buf)
                  ELSE Len(Zipped(addr, LastAddr(addr, Len(buf)), buf))
         IN  [res |-> MemOk,
              buf |-> [i \in 1..Len(buf) |->
                         IF i <= n THEN ByteAt(m, WrappingAdd(addr, FromNat(i - 1)))
                         ELSE buf[i]]]

\* Memory::write::<N>(addr, val), size = size_of::<N>()
MmuWrite(m, addr, size, val) == Memwrite(m, addr, ToLeBytesN(val, size))

\* Memory::read::<N>(addr): N::Buf::default() filled by
\* copy_from_atomic_slice, then N::from_le_bytes
MmuRead(m, addr, size) ==
    LET r == Memcpy(m, addr, [i \in 1..size |-> 0], FALSE)
    IN  [res |-> r.res, val |-> IF r.res = MemOk THEN FromLeBytesN(r.buf) ELSE Zero]

\* Mmu::set_prot: every page visited in steps of PAGE_SIZE gets the mask
SetProt(pgs, r, prot) == ChangeProtPages(pgs, r, prot)

\* Mmu::read::<N>: check_prot(addr, Prot::Read)?, then mem.read(addr)
MmuCheckedRead(pgs, m, addr, size) ==
    LET c == CheckProt(pgs, RangeOfAddr(addr), {Read})
    IN  IF c # MemOk THEN [res |-> c, val |-> Zero] ELSE MmuRead(m, addr, size)

\* Mmu::write::<N>: check_prot(addr, Prot::Write)?, then mem.write(addr, n)
MmuCheckedWrite(pgs, m, addr, size, val) ==
    LET c == CheckProt(pgs, RangeOfAddr(addr), {Write})
    IN  IF c # MemOk THEN [res |-> c, mem |-> m] ELSE MmuWrite(m, addr, size, val)

\* the most commands the controller sends to the monitor
MaxCmds == 3

\* size_of::<MonitorArgs>()
ArgsSize == 6

\* the addresses a monitor is created at or moved to: one whose arguments
\* and framebuffer fit, one whose framebuffer runs past the end of memory
\* and one whose arguments do
MonBases == { W(0, 10), W(Limb - 1, Limb - 9), W(Limb - 1, Limb - 5) }

\* the memory a monitor is created over: empty, or the arguments of a
\* screen of one pixel at the first base and of one of two pixels at the
\* second
MonImages ==
    { NewData,
      StoreBytes(StoreBytes(NewData, W(0, 10), <<1, 0, 1, 0, 60, 0>>),
                 W(Limb - 1, Limb - 9), <<2, 0, 1, 0, 60, 0>>) }

\* the addresses, values and buffers of the controller's accesses
MmuAddrs == { Zero, One, W(0, 16), W(0, PAGE_SIZE - 2), BitSizeMax }

\* the ranges and masks of the owner's set_prot calls
MmuRanges == { RangeArg("addr", Zero, Zero), RangeArg("full", Zero, Zero) }

MmuMasks == { {Read}, {Write}, {Read, Write} }

MmuVals == { W(258, 772) }

MmuBufs == { <<7>>, <<7, 8, 9>> }

\* MonitorArgs::from(arg_buf): width * height, from the little-endian u16s
Pixels(arg_buf) == (arg_buf[1] + 256 * arg_buf[2]) * (arg_buf[3] + 256 * arg_buf[4])

\* MonitorArgs::from(arg_buf)
MonitorArgsFrom(arg_buf) ==
    [width  |-> arg_buf[1] + 256 * arg_buf[2],
     height |-> arg_buf[3] + 256 * arg_buf[4],
     fps    |-> arg_buf[5] + 256 * arg_buf[6]]

\* the receiving end of a channel is gone once its thread has ended
ThreadGone(mn) == mn.thr \in {"exited", "panicked"}

ControllerGone(mn) == mn.ctl \in {"dropped", "panicked"}

\* reply_tx.send(Command::Finished)
SendFinishedTwice(mn) ==
    [mn EXCEPT !.thr = "running", !.rep = @ + 2, !.finished = @ + 2]

SendFinished(mn) ==
    [mn EXCEPT !.thr = "running", !.rep = @ + 1, !.finished = @ + 1]

\* self.tx.send(cmd).unwrap(): a send to a thread that has ended panics
SendReq(mn, cmd) ==
    IF ThreadGone(mn) THEN [mn EXCEPT !.ctl = "panicked"]
    ELSE [mn EXCEPT !.req = Append(@, cmd), !.cmds = @ + 1]

\* the emulator as Emulator::new(&[]) leaves it
EmuInit ==
    /\ gp = RegistersDefault
    /\ gfx = Zero
    /\ pc = Zero
    /\ clk = [high |-> Zero, low |-> Zero]
    /\ data = WriteProgramData(NewData, << >>)
    /\ pages = WriteProgramPages(NewPages, << >>)
    /\ stop = FALSE
    /\ inst = NoInst
    /\ phase = "Idle"
    /\ result = NoResult
    /\ prog = NoProg
    /\ prev = [gp |-> RegistersDefault, pc |-> Zero, steady |-> FALSE,
               time |-> <<Zero, Zero, Zero, Zero>>]
    /\ ret = NoCall
    /\ calls = 0

\* Mmu::new() and what the embedder writes, then Monitor::new(addr, mmu),
\* which returns as soon as the thread is spawned
MonInit ==
    /\ EmuInit
    /\ mem \in MonImages
    /\ mmu_pages = MmuNewPages
    /\ mon \in {[NoMonitor EXCEPT !.thr = "spawned", !.addr = a] : a \in MonBases}

Controller == mon.ctl = "idle" /\ calls < MaxCalls

Cpu_vars == <<gp, gfx, pc, clk, data, pages, stop, inst, phase, result, prog, prev>>

\* mmu.write_unchecked::<N>(addr, val)
MmuWrite_(addr, size, val) ==
    /\ Controller
    /\ \E w \in {MmuWrite(mem, addr, size, val)} :
          /\ mem' = w.mem
          /\ ret' = [NoCall EXCEPT !.call = "mmu_write", !.addr = addr, !.size = size,
                                   !.val = val, !.res = w.res]
    /\ calls' = calls + 1
    /\ UNCHANGED <<Cpu_vars, mmu_pages, mon>>

\* mmu.read_unchecked::<N>(addr)
MmuRead_(addr, size) ==
    /\ Controller
    /\ \E r \in {MmuRead(mem, addr, size)} :
          ret' = [NoCall EXCEPT !.call = "mmu_read", !.addr = addr, !.size = size,
                                !.val = r.val, !.res = r.res]
    /\ calls' = calls + 1
    /\ UNCHANGED <<Cpu_vars, mmu_pages, mem, mon>>

\* mmu.set_prot(r, prot)
SetProt_(r, prot) ==
    /\ Controller
    /\ mmu_pages' = SetProt(mmu_pages, IntoRange(r), prot)
    /\ ret' = [NoCall EXCEPT !.call = "set_prot", !.arg = r, !.range = IntoRange(r),
                             !.mask = prot]
    /\ calls' = calls + 1
    /\ UNCHANGED <<Cpu_vars, mem, mon>>

\* mmu.write::<N>(addr, val)
MmuCheckedWrite_(addr, size, val) ==
    /\ Controller
    /\ \E w \in {MmuCheckedWrite(mmu_pages, mem, addr, size, val)} :
          /\ mem' = w.mem
          /\ ret' = [NoCall EXCEPT !.call = "write", !.addr = addr, !.size = size,
                                   !.val = val, !.res = w.res]
    /\ calls' = calls + 1
    /\ UNCHANGED <<Cpu_vars, mmu_pages, mon>>

\* mmu.read::<N>(addr)
MmuCheckedRead_(addr, size) ==
    /\ Controller
    /\ \E r \in {MmuCheckedRead(mmu_pages, mem, addr, size)} :
          ret' = [NoCall EXCEPT !.call = "read", !.addr = addr, !.size = size,
                                !.val = r.val, !.res = r.res]
    /\ calls' = calls + 1
    /\ UNCHANGED <<Cpu_vars, mmu_pages, mem, mon>>

\* mmu.memwrite(addr, buf)
Memwrite_(addr, buf) ==
    /\ Controller
    /\ \E w \in {Memwrite(mem, addr, buf)} :
          /\ mem' = w.mem
          /\ ret' = [NoCall EXCEPT !.call = "memwrite", !.addr = addr, !.size = Len(buf),
                                   !.val = buf, !.res = w.res]
    /\ calls' = calls + 1
    /\ UNCHANGED <<Cpu_vars, mmu_pages, mon>>

\* mmu.memcpy(addr, &mut [0; len])
Memcpy_(addr, len, x86) ==
    /\ Controller
    /\ \E r \in {Memcpy(mem, addr, [i \in 1..len |-> 0], x86)} :
          ret' = [NoCall EXCEPT !.call = "memcpy", !.addr = addr, !.size = len,
                                !.val = r.buf, !.res = r.res]
    /\ calls' = calls + 1
    /\ UNCHANGED <<Cpu_vars, mmu_pages, mem, mon>>

CanSend == mon.ctl = "idle" /\ mon.cmds < MaxCmds

\* Monitor::draw, its first line: self.tx.send(ReqCommand::Draw).unwrap()
DrawSend ==
    /\ CanSend
    /\ \E s \in {SendReq(mon, [cmd |-> "Draw"])} :
          mon' = IF s.ctl = "panicked" THEN s
                 ELSE [s EXCEPT !.ctl = "waiting", !.sent = @ + 1]
    /\ UNCHANGED <<Cpu_vars, mmu_pages, mem, ret, calls>>

\* a recv() that waits for a Finished whether or not its sender lives
DrawRecvBlocking ==
    /\ mon.ctl = "waiting"
    /\ mon.rep > 0
    /\ mon' = [mon EXCEPT !.rep = @ - 1, !.ctl = "idle", !.returned = @ + 1]
    /\ UNCHANGED <<Cpu_vars, mmu_pages, mem, ret, calls>>

\* Monitor::draw, its second line: self.rx.recv().unwrap() returns with a
\* Finished, blocks while the reply channel is empty and its sender lives,
\* and panics once the sender is gone
DrawRecv ==
    /\ mon.ctl = "waiting"
    /\ mon.rep > 0 \/ ThreadGone(mon)
    /\ mon' = IF mon.rep > 0
              THEN [mon EXCEPT !.rep = @ - 1, !.ctl = "idle", !.returned = @ + 1]
              ELSE [mon EXCEPT !.ctl = "panicked"]
    /\ UNCHANGED <<Cpu_vars, mmu_pages, mem, ret, calls>>

\* Monitor::update(base)
Update(base) ==
    /\ CanSend
    /\ mon' = SendReq(mon, [cmd |-> "Update", base |-> base])
    /\ UNCHANGED <<Cpu_vars, mmu_pages, mem, ret, calls>>

\* Monitor::stop()
Stop ==
    /\ CanSend
    /\ mon' = SendReq(mon, [cmd |-> "Stop"])
    /\ UNCHANGED <<Cpu_vars, mmu_pages, mem, ret, calls>>

\* the Monitor is dropped, and its Sender and Receiver with it
DropMonitor ==
    /\ mon.ctl = "idle"
    /\ mon' = [mon EXCEPT !.ctl = "dropped"]
    /\ UNCHANGED <<Cpu_vars, mmu_pages, mem, ret, calls>>

\* the thread up to its loop: the arguments are copied out of memory, the
\* framebuffer is allocated and the window is opened
ThreadStart(x86, window_ok) ==
    /\ mon.thr = "spawned"
    /\ \E a \in {Memcpy(mem, mon.addr, [i \in 1..ArgsSize |-> 0], x86)} :
          mon' = IF a.res # MemOk \/ ~window_ok THEN [mon EXCEPT !.thr = "panicked"]
                 ELSE [mon EXCEPT !.thr = "running",
                                  !.args = MonitorArgsFrom(a.buf),
                                  !.vram = [i \in 1..(4 * Pixels(a.buf)) |-> 0],
                                  !.vram_base = WrappingAdd(mon.addr, FromNat(ArgsSize))]
    /\ UNCHANGED <<Cpu_vars, mmu_pages, mem, ret, calls>>

\* rx.recv() gives Draw: the framebuffer is copied and the window updated
ThreadDraw(x86, window_ok) ==
    /\ mon.thr = "running"
    /\ mon.req # << >>
    /\ Head(mon.req).cmd = "Draw"
    /\ \E c \in {Memcpy(mem, mon.vram_base, mon.vram, x86)} :
          mon' = IF c.res # MemOk \/ ~window_ok
                 THEN [mon EXCEPT !.thr = "panicked", !.req = Tail(@)]
                 ELSE [mon EXCEPT !.thr = "serving", !.req = Tail(@), !.vram = c.buf,
                                  !.copied = @ + 1]
    /\ UNCHANGED <<Cpu_vars, mmu_pages, mem, ret, calls>>

\* the Draw arm ends: reply_tx.send(Command::Finished).unwrap()
ThreadReply ==
    /\ mon.thr = "serving"
    /\ mon' = IF ControllerGone(mon) THEN [mon EXCEPT !.thr = "panicked"]
              ELSE SendFinished(mon)
    /\ UNCHANGED <<Cpu_vars, mmu_pages, mem, ret, calls>>

\* rx.recv() gives Update { base }: the arguments are read again and a
\* new window is opened; the framebuffer keeps its size
ThreadUpdate(x86, window_ok) ==
    /\ mon.thr = "running"
    /\ mon.req # << >>
    /\ Head(mon.req).cmd = "Update"
    /\ \E a \in {Memcpy(mem, Head(mon.req).base, [i \in 1..ArgsSize |-> 0], x86)} :
          mon' = IF a.res # MemOk \/ ~window_ok
                 THEN [mon EXCEPT !.thr = "panicked", !.req = Tail(@)]
                 ELSE [mon EXCEPT !.req = Tail(@), !.addr = Head(mon.req).base,
                                  !.args = MonitorArgsFrom(a.buf),
                                  !.vram_base = WrappingAdd(Head(mon.req).base,
                                                            FromNat(ArgsSize))]
    /\ UNCHANGED <<Cpu_vars, mmu_pages, mem, ret, calls>>

\* a loop that drops a Stop and goes on
ThreadStopIgnored ==
    /\ mon.thr = "running"
    /\ \/ mon.req # << >> /\ Head(mon.req).cmd = "Stop"
       \/ mon.req = << >> /\ ControllerGone(mon)
    /\ mon' = IF mon.req # << >> THEN [mon EXCEPT !.req = Tail(@)]
              ELSE [mon EXCEPT !.thr = "exited"]
    /\ UNCHANGED <<Cpu_vars, mmu_pages, mem, ret, calls>>

\* rx.recv() gives Stop, or fails because the Monitor is gone and the
\* channel is empty: the loop ends and the thread with it
ThreadStop ==
    /\ mon.thr = "running"
    /\ \/ mon.req # << >> /\ Head(mon.req).cmd = "Stop"
       \/ mon.req = << >> /\ ControllerGone(mon)
    /\ mon' = [mon EXCEPT !.thr = "exited"]
    /\ UNCHANGED <<Cpu_vars, mmu_pages, mem, ret, calls>>

\* the framebuffers the controller writes: one pixel at the first base
MonFrames == { <<1, 2, 3, 4>>, <<5, 6, 7, 8>> }

MonNext ==
    \/ \E buf \in MonFrames : Memwrite_(W(0, 16), buf)
    \/ DrawSend
    \/ DrawRecv
    \/ \E base \in MonBases : Update(base)
    \/ Stop
    \/ DropMonitor
    \/ \E x86 \in BOOLEAN, window_ok \in BOOLEAN : ThreadStart(x86, window_ok)
    \/ \E x86 \in BOOLEAN, window_ok \in BOOLEAN : ThreadDraw(x86, window_ok)
    \/ ThreadReply
    \/ \E x86 \in BOOLEAN, window_ok \in BOOLEAN : ThreadUpdate(x86, window_ok)
    \/ ThreadStop

MonSpec == MonInit /\ [][MonNext]_vars

\* the steps of the monitor thread, which the host's scheduler runs
\* whenever one is possible, as it wakes a recv() of the controller that has
\* a reply or a closed channel to return with
ThreadStep ==
    \/ \E x86 \in BOOLEAN, window_ok \in BOOLEAN : ThreadStart(x86, window_ok)
    \/ \E x86 \in BOOLEAN, window_ok \in BOOLEAN : ThreadDraw(x86, window_ok)
    \/ ThreadReply
    \/ \E x86 \in BOOLEAN, window_ok \in BOOLEAN : ThreadUpdate(x86, window_ok)
    \/ ThreadStop

MonFairSpec == MonSpec /\ WF_vars(ThreadStep) /\ WF_vars(DrawRecv)

\* Mmu::new() alone, and the accesses of its owner
MmuInit ==
    /\ EmuInit
    /\ mem = NewData
    /\ mmu_pages = MmuNewPages
    /\ mon = NoMonitor

MmuNext ==
    \/ \E r \in MmuRanges, prot \in MmuMasks : SetProt_(r, prot)
    \/ \E addr \in MmuAddrs, size \in HandlerSizes, val \in MmuVals : MmuCheckedWrite_(addr, size, val)
    \/ \E addr \in MmuAddrs, size \in HandlerSizes : MmuCheckedRead_(addr, size)
    \/ \E addr \in MmuAddrs, size \in HandlerSizes, val \in MmuVals : MmuWrite_(addr, size, val)
    \/ \E addr \in MmuAddrs, size \in HandlerSizes : MmuRead_(addr, size)
    \/ \E addr \in MmuAddrs, buf \in MmuBufs : Memwrite_(addr, buf)
    \/ \E addr \in MmuAddrs, len \in {1, 3}, x86 \in BOOLEAN : Memcpy_(addr, len, x86)

MmuSpec == MmuInit /\ [][MmuNext]_vars


\* the runs of the programs whose handler changes the masks of the pages the
\* program lies in
ExecNext ==
    \/ \E p \in StraddleProgs \cup ProtProgs : Load(p)
    \/ \E r \in HandlerRanges, m \in HandlerMasks : ChangeProt(r, m)
    \/ RunStep

ExecSpec == Init /\ [][ExecNext]_vars

\* _try_run_with: `dirty` is whether the assembly text holds "str", the
\* mnemonics str, str.w, str.b, pstr, pstr.w and pstr.b
Dirty(code) == \E k \in 1..Len(code) : code[k].mode = 0 /\ code[k].op_code \in 38..43

\* EmuGuard::drop, when the guard a run returned (or the one a failed run
\* held) goes away: cpu.zeroize(), which sets gfx, pc and gp; mem.zeroize()
\* if dirty; mem.change_prot(.., Read | Write).  The emulator stays in the
\* static LOCK for the next run.
Reset ==
    /\ phase \in {"Returned", "Panicked"}
    /\ gfx' = Zero
    /\ pc' = Zero
    /\ gp' = RegistersDefault
    /\ data' = IF Dirty(prog.code) THEN NewData ELSE data
    /\ pages' = ChangeProtPages(pages, RangeOfRangeFull, {Read, Write})
    /\ phase' = "Idle"
    /\ stop' = FALSE
    /\ inst' = NoInst
    /\ result' = NoResult
    /\ prog' = NoProg
    /\ prev' = [gp |-> RegistersDefault, pc |-> Zero, steady |-> FALSE,
                time |-> <<Zero, Zero, Zero, Zero>>]
    /\ ret' = NoCall
    /\ calls' = 0
    /\ UNCHANGED <<clk, mem, mmu_pages, mon>>

\* the programs the tests of one process run one after another
ResetProgs == {p \in MiscProgs : p.form \in {"mov", "rdclk", "ld", "ldb", "push_pop_wrap"}}

ResetNext ==
    \/ \E p \in ResetProgs : Load(p)
    \/ RunStep
    \/ Reset

ResetSpec == Init /\ [][ResetNext]_vars

\* ------------------------------------------------------------------------
\* Properties
\* ------------------------------------------------------------------------

\* a step of run(): one iteration of its loop
IsRunStep ==
    /\ phase \in {"Loaded", "Running"}
    /\ phase' \in {"Running", "Returned", "Panicked"}

\* the iteration decoded an instruction at an executable pc and handed it
\* to Cpu::process
Attempts == IsRunStep /\ inst' # NoInst /\ Execute \in PageProt(pages, PageIdxOf(pc))

\* the instruction completed and the loop goes on
Completes == Attempts /\ phase' = "Running"

NextPc(pcv, i) == WrappingAdd(pcv, IF i.has_imm THEN W(0, 8) ELSE W(0, 4))

\* C1: register 0 reads 0 in every reachable state; a completed instruction
\* of mode 1 or rdpc whose destination is register 0 changes no register;
\* a completed `mov dst, v` with dst in 1..31 leaves v in dst and every other
\* register as it was, and a completed `mov dst, r` reads back the value
\* last written to r.
C1_RegisterFile ==
    /\ [](GetReg(gp, ZR) = Zero)
    /\ [][ Completes =>
            /\ ((inst'.mode = 1 \/ (inst'.mode = 0 /\ inst'.op_code = OpRdpc))
                  /\ inst'.dst = ZR) => gp' = gp
            /\ (inst'.mode = 1 /\ inst'.op_code = OpMov /\ inst'.dst # ZR) =>
                  gp' = [gp EXCEPT ![inst'.dst] =
                            IF inst'.has_imm THEN inst'.imm ELSE gp[inst'.a]] ]_vars

\* the run of test_registers has returned: zr still reads 0 after `mov zr, 42`
\* and every other register reads the value moved into it
C1_Witness ==
    /\ phase = "Returned"
    /\ result.out = "Ok"
    /\ prog.form = "registers"
    /\ GetReg(gp, ZR) = Zero
    /\ \A r \in 1..(NumRegs - 1) : GetReg(gp, r) = FromNat(r)

\* C2: a completed instruction that is neither a jump, a call nor a ret
\* leaves pc at its previous value plus 4 (no immediate) or 8 (immediate);
\* a completed conditional jump leaves pc at its target (the immediate, or
\* the value of the dst register) when taken and at pc plus 4 or 8 when not,
\* je being taken exactly when its operands are equal; jmp leaves pc at its
\* target.
C2_PcAdvance ==
    [][ Completes =>
          LET i      == inst'
              target == IF i.has_imm THEN i.imm ELSE gp[i.dst]
          IN  /\ (i.mode \in {0, 1} \/ (i.mode = 3 /\ i.op_code \in {OpPush, OpPop}))
                    => pc' = NextPc(pc, i)
              /\ (i.mode = 2 /\ i.op_code = OpJmp) => pc' = target
              /\ (i.mode = 2 /\ i.op_code # OpJmp) => pc' \in {target, NextPc(pc, i)}
              /\ (i.mode = 2 /\ i.op_code = OpJe) =>
                    pc' = IF gp[i.a] = gp[i.b] THEN target ELSE NextPc(pc, i) ]_vars

\* a je with an immediate target was not taken and pc moved on by 8
C2_Witness ==
    /\ phase = "Running"
    /\ inst.mode = 2 /\ inst.op_code = OpJe /\ inst.has_imm
    /\ prev.gp[inst.a] # prev.gp[inst.b]
    /\ pc = WrappingAdd(prev.pc, W(0, 8))
    /\ pc # inst.imm

\* the push/pop program loaded has run to its hlt
PushPopDone == phase = "Returned" /\ result.out = "Ok" /\ prog.family = "pushpop"

\* the number of pushes of the push/pop program, its sources r_1 .. r_n, its
\* destinations d_1 .. d_n and the value of sp before the first push
Depth == Len(prog.regs) \div 2

Source(k) == prog.regs[k]

Dest(k) == prog.regs[Depth + k]

FirstSp == prog.vals[1]

\* the value r_k had when it was pushed: the k-th push finds sp lowered by
\* the k - 1 pushes before it
PushedVal(k) ==
    CASE Source(k) = T0 -> PushValA
      [] Source(k) = T1 -> PushValB
      [] Source(k) = SP -> WrappingSub(FirstSp, FromNat(WordSize * (k - 1)))

C4_CallRetBalance ==
    [][ (/\ IsRunStep
         /\ phase = "Running" /\ inst.mode = 3 /\ inst.op_code = OpCall
         /\ inst'.mode = 3 /\ inst'.op_code = OpRet
         /\ Execute \in PageProt(pages, PageIdxOf(pc)))
        =>  /\ phase' = "Running"
            /\ pc' = NextPc(prev.pc, inst)
            /\ gp'[RA] = prev.gp[RA]
            /\ gp'[SP] = prev.gp[SP] ]_vars

\* the ret of `call F` (immediate form) with ra = 0xDEADBEEF has resumed
\* after the call with ra and sp restored
C4_Witness ==
    /\ phase = "Running"
    /\ prog.family = "call" /\ prog.form = "imm"
    /\ inst.mode = 3 /\ inst.op_code = OpRet
    /\ prog.vals[1] # Zero
    /\ gp[RA] = prog.vals[1]
    /\ gp[SP] = prog.vals[2]
    /\ pc = FromNat(OffsetOf(prog.code, 5))

\* the address a load or store of mode 0 reaches: loads take it from reg a
\* or the immediate, stores from reg dst
LoadAddr(i, g) == IF i.has_imm THEN i.imm ELSE g[i.a]

StoreAddr(i, g) == g[i.dst]

\* the width in bytes of the load or store with opcode op
AccessSize(op) ==
    CASE op \in {OpLd, OpStr}   -> 4
      [] op \in {OpLdw, OpStrw} -> 2
      [] op \in {OpLdb, OpStrb} -> 1

InRange(addr, n) == ~AddOverflows(addr, FromNat(n))

\* C5: a checked write to an address whose page lacks Write fails with
\* PageFault(Write) and stores nothing: Memory::write::<N> called by a
\* handler, and the instructions str, str.w and str.b.
C5_WriteProtection ==
    [][ /\ (/\ ret'.call = "write" /\ calls' = calls + 1
            /\ InRange(ret'.addr, ret'.size)
            /\ Write \notin PageProt(pages, PageIdxOf(ret'.addr)))
           => (ret'.res = PageFault({Write}) /\ data' = data)
        /\ (/\ Attempts
            /\ inst'.mode = 0 /\ inst'.op_code \in {OpStr, OpStrw, OpStrb}
            /\ InRange(StoreAddr(inst', gp), AccessSize(inst'.op_code))
            /\ Write \notin PageProt(pages, PageIdxOf(StoreAddr(inst', gp))))
           => (/\ phase' = "Returned"
               /\ result'.err = EmuError("Cpu", PageFault({Write}))
               /\ data' = data) ]_vars

C7_LittleEndianLoads ==
    [][ (/\ Attempts
         /\ inst'.mode = 0 /\ inst'.op_code \in {OpLd, OpLdw, OpLdb}
         /\ inst'.dst # ZR
         /\ InRange(LoadAddr(inst', gp), AccessSize(inst'.op_code))
         /\ Read \in PageProt(pages, PageIdxOf(LoadAddr(inst', gp))))
        =>  /\ phase' = "Running"
            /\ gp'[inst'.dst] =
                  FromLeBytesN(BytesAt(data, LoadAddr(inst', gp), AccessSize(inst'.op_code))) ]_vars

\* C8: str, str.w and str.b store the low 4, 2 and 1 bytes of reg a (or of
\* the immediate) in little-endian order at the address in reg dst, and
\* change no other byte.
C8_LittleEndianStores ==
    [][ (/\ Attempts
         /\ inst'.mode = 0 /\ inst'.op_code \in {OpStr, OpStrw, OpStrb}
         /\ InRange(StoreAddr(inst', gp), AccessSize(inst'.op_code))
         /\ Write \in PageProt(pages, PageIdxOf(StoreAddr(inst', gp))))
        =>  /\ phase' = "Running"
            /\ data' = StoreBytes(data, StoreAddr(inst', gp),
                                  ToLeBytesN(IF inst'.has_imm THEN inst'.imm ELSE gp[inst'.a],
                                             AccessSize(inst'.op_code))) ]_vars

\* the second operand of an instruction of mode 1
OperandB(i, g) == IF i.has_imm THEN i.imm ELSE g[i.b]

\* the instruction completed as a normal one that writes v to its dst
WritesDst(v) ==
    /\ phase' = "Running"
    /\ gp' = IF inst'.dst = ZR THEN gp ELSE [gp EXCEPT ![inst'.dst] = v]
    /\ pc' = NextPc(pc, inst')

\* C9: div and idiv with a zero dividend write 0 to dst whatever the
\* divisor (register or immediate), b = 0 included, and complete as a normal
\* instruction.
C9_DivZeroDividend ==
    [][ (/\ Attempts
         /\ inst'.mode = 1 /\ inst'.op_code \in {OpDiv, OpIdiv}
         /\ gp[inst'.a] = Zero)
        => WritesDst(Zero) ]_vars

\* a div of 0 by 0 has completed with 0 in dst
C9_Witness ==
    /\ phase = "Running"
    /\ inst.mode = 1 /\ inst.op_code = OpDiv /\ inst.dst # ZR
    /\ prev.gp[inst.a] = Zero
    /\ OperandB(inst, prev.gp) = Zero
    /\ gp[inst.dst] = Zero
    /\ pc = NextPc(prev.pc, inst)

\* C10: rem and irem with a zero dividend write 0 to dst whatever the
\* divisor (register or immediate), b = 0 included, and complete as a normal
\* instruction.
C10_RemZeroDividend ==
    [][ (/\ Attempts
         /\ inst'.mode = 1 /\ inst'.op_code \in {OpRem, OpIrem}
         /\ gp[inst'.a] = Zero)
        => WritesDst(Zero) ]_vars

\* the value of a register read as an i32
AsSigned(x) == (IF Hi(x) >= Limb \div 2 THEN Hi(x) - Limb ELSE Hi(x)) * Limb + Lo(x)

\* x < y for two registers read as u32, most significant limb first
UnsignedBelow(x, y) == Hi(x) < Hi(y) \/ (Hi(x) = Hi(y) /\ Lo(x) < Lo(y))

\* the predicate the ordering jump op names, on the signed values for jl,
\* jge, jle, jg and on the unsigned ones for jb, jae, jbe, ja
BranchPredicate(op, x, y) ==
    CASE op = OpJl  -> AsSigned(x) < AsSigned(y)
      [] op = OpJge -> AsSigned(x) >= AsSigned(y)
      [] op = OpJle -> AsSigned(x) <= AsSigned(y)
      [] op = OpJg  -> AsSigned(x) > AsSigned(y)
      [] op = OpJb  -> UnsignedBelow(x, y)
      [] op = OpJae -> ~UnsignedBelow(x, y)
      [] op = OpJbe -> ~UnsignedBelow(y, x)
      [] op = OpJa  -> UnsignedBelow(y, x)

\* C11: a completed jl, jge, jle or jg leaves pc at its target exactly when
\* its predicate holds of reg a and reg b read as signed 32-bit values, and
\* a completed jb, jae, jbe or ja exactly when it holds of them read as
\* unsigned values; otherwise pc moves past the jump. With a = 0xFFFFFFFF
\* and b = 1, jl is taken and jb is not.
C11_SignedUnsignedBranches ==
    [][ (Completes /\ inst'.mode = 2 /\ inst'.op_code \in OpJl..OpJa) =>
          LET i      == inst'
              target == IF i.has_imm THEN i.imm ELSE gp[i.dst]
              x      == gp[i.a]
              y      == gp[i.b]
          IN  /\ pc' = IF BranchPredicate(i.op_code, x, y) THEN target ELSE NextPc(pc, i)
              /\ (x = BitSizeMax /\ y = One /\ i.op_code = OpJl) => pc' = target
              /\ (x = BitSizeMax /\ y = One /\ i.op_code = OpJb) => pc' = NextPc(pc, i) ]_vars

\* jl with a = 0xFFFFFFFF and b = 1 has jumped over the instruction after it
C11_Witness ==
    /\ phase = "Running"
    /\ inst.mode = 2 /\ inst.op_code = OpJl
    /\ prev.gp[inst.a] = BitSizeMax /\ prev.gp[inst.b] = One
    /\ pc = prog.vals[3]
    /\ pc # NextPc(prev.pc, inst)

\* C12: a completed `rdclk a, b` leaves the low 32 bits of the cycle counter
\* in reg a and the high 32 bits in reg b; after mov zr, zr ; mov zr, zr ;
\* push t0 ; pop t0 ; rdclk t0, t1 the value (t1 << 32) | t0 is 6, that is
\* t0 = 6 and t1 = 0.
C12_RdclkLowHigh ==
    [][ (Completes /\ inst'.mode = 0 /\ inst'.op_code = OpRdclk
           /\ inst'.a # inst'.b /\ inst'.a # ZR /\ inst'.b # ZR) =>
          /\ gp'[inst'.a] = clk.low
          /\ gp'[inst'.b] = clk.high
          /\ prog.form = "rdclk" => (gp'[T0] = W(0, 6) /\ gp'[T1] = Zero) ]_vars

\* the cycle counter as a number, for the counts a run of the model reaches
ClkValue(k) == Hi(k.low) * Limb + Lo(k.low)

ClkSmall(k) == k.high = Zero /\ Hi(k.low) < Limb \div 2

\* the cost C13 gives an instruction
ListedCost(i) ==
    IF i.mode = 3 THEN (IF i.op_code = OpCall THEN 3 ELSE 2) ELSE 1

\* the duration of the slp i when it fits 31 bits, as a number
SlpMicros(i, g) ==
    LET v == IF i.has_imm THEN i.imm ELSE g[i.b]
    IN  Hi(v) * Limb + Lo(v)

SlpFits(i, g) ==
    /\ i.has_imm \/ g[i.a] = Zero
    /\ Hi(IF i.has_imm THEN i.imm ELSE g[i.b]) < Limb \div 2

IsSlp(i) == i.mode = 0 /\ i.op_code = OpSlp

\* C13 as stated: every iteration of run() that completes an instruction
\* adds that instruction's cost to clk, 2 for push, pop and ret, 3 for call
\* and 1 for every other instruction; every other step, the hlt that ends
\* the run included, leaves clk as it was; clk never decreases.
C13_CycleCounterListedCosts ==
    [][ /\ ClkSmall(clk) /\ ClkSmall(clk')
        /\ ClkValue(clk') >= ClkValue(clk)
        /\ ClkValue(clk') =
             ClkValue(clk) + IF IsRunStep /\ phase' = "Running" THEN ListedCost(inst') ELSE 0
      ]_vars

\* C13, amended: the same, with the cost of a slp of v > 0 microseconds in a
\* build with the steady-clock feature being ceil(max(v, 5) / 5) cut to 32
\* bits (0 for v = 5 * 2^32).
C13_CycleCounter ==
    [][ /\ ClkSmall(clk) /\ ClkSmall(clk')
        /\ ClkValue(clk') >= ClkValue(clk)
        /\ (IsRunStep /\ phase' = "Running" /\ ~(IsSlp(inst') /\ prev'.steady)) =>
              ClkValue(clk') = ClkValue(clk) + ListedCost(inst')
        /\ (IsRunStep /\ phase' = "Running" /\ IsSlp(inst') /\ prev'.steady) =>
              /\ SlpFits(inst', gp) =>
                    ClkValue(clk') = ClkValue(clk) +
                       (IF SlpMicros(inst', gp) = 0 THEN 1
                        ELSE IF SlpMicros(inst', gp) < Fre THEN 1
                        ELSE (SlpMicros(inst', gp) + Fre - 1) \div Fre)
              /\ (~inst'.has_imm /\ gp[inst'.a] = W(0, 5) /\ gp[inst'.b] = Zero) =>
                    clk' = clk
        /\ ~(IsRunStep /\ phase' = "Running") => clk' = clk
      ]_vars

\* a steady-clock build has completed `slp 12` as the first instruction of
\* a run: clk is 3
C13_Witness ==
    /\ phase = "Running"
    /\ IsSlp(inst) /\ inst.has_imm /\ inst.imm = W(0, 12)
    /\ prev.steady
    /\ clk = [high |-> Zero, low |-> W(0, 3)]

\* C14: a completed `push a` leaves sp lowered by 4 and the value of reg a
\* little-endian in the four bytes at the new sp; the run of mov sp, 0 ;
\* mov t0, 0xAABBCCDD ; push t0 ; pop t1 has sp = 0xFFFFFFFC and bytes DD CC
\* BB AA at 0xFFFFFFFC..0xFFFFFFFF after the push, does not abort, and ends
\* with t1 = 0xAABBCCDD and sp = 0.
C14_PushLittleEndianWrap ==
    /\ [][ (Completes /\ inst'.mode = 3 /\ inst'.op_code = OpPush) =>
              /\ gp'[SP] = WrappingSub(gp[SP], W(0, WordSize))
              /\ BytesAt(data', gp'[SP], WordSize) = ToLeBytes(gp[inst'.a])
              /\ prog.form = "push_pop_wrap" =>
                    /\ gp'[SP] = W(Limb - 1, Limb - 4)
                    /\ BytesAt(data', W(Limb - 1, Limb - 4), WordSize) = <<221, 204, 187, 170>> ]_vars
    /\ [](prog.form = "push_pop_wrap" =>
              /\ phase # "Panicked"
              /\ (phase = "Returned" =>
                    result.out = "Ok" /\ gp[T1] = W(43707, 52445) /\ gp[SP] = Zero))

\* the pages whose masks the properties look at: the first pages, the page
\* of TestAddr and the last page
ProbePages == {0, 1, 2, 3, PageIdxOf(TestAddr), PageIdxOf(BitSizeMax)}

\* page idx holds at least one byte of the inclusive range r
Covers(r, idx) ==
    /\ ULe(r[1], r[2])
    /\ PageIdxOf(r[1]) <= idx
    /\ idx <= PageIdxOf(r[2])

IsChangeProt == InHandler /\ calls' = calls + 1 /\ ret'.call = "change_prot"

\* C15: change_prot(range, mask) with start <= end leaves mask on every page
\* that holds at least one byte of range, whether or not start is
\* page-aligned, and leaves the mask of every other page as it was.
C15_SetProtCoversRange ==
    [][ (IsChangeProt /\ ULe(ret'.range[1], ret'.range[2])) =>
          \A idx \in ProbePages :
             PageProt(pages', idx) =
                IF Covers(ret'.range, idx) THEN ret'.mask ELSE PageProt(pages, idx) ]_vars

\* the pages at which the mask can change inside the range r: its first
\* page, and the first page of and the page after each assignment made
FrontPages(pgs, r) ==
    {PageIdxOf(r[1])} \cup {pgs[k].lo : k \in 1..Len(pgs)}
                      \cup {pgs[k].hi + 1 : k \in 1..Len(pgs)}

\* the pages holding a byte of r whose mask lacks a bit of req
Lacking(pgs, r, req) ==
    {idx \in FrontPages(pgs, r) \cup ProbePages :
        Covers(r, idx) /\ ~(req \subseteq PageProt(pgs, idx))}

IsCheckProt == InHandler /\ calls' = calls + 1 /\ ret'.call = "check_prot"

\* C16: check_prot(range, required) returns an error exactly when some page
\* holding a byte of range has a mask that lacks a bit of required; the
\* error is PageFault carrying the required bits missing from such a page.
C16_CheckProtMissingBits ==
    [][ (IsCheckProt /\ ULe(ret'.range[1], ret'.range[2])) =>
          LET bad == Lacking(pages, ret'.range, ret'.mask)
          IN  /\ (ret'.res = MemOk) <=> (bad = {})
              /\ (ret'.res # MemOk) =>
                    \E idx \in bad : ret'.res = PageFault(ret'.mask \ PageProt(pages, idx)) ]_vars

IsAccess == InHandler /\ calls' = calls + 1 /\ ret'.call \in {"read", "write"}

\* addr + n - 1 exceeds 2^32 - 1
PastEnd(addr, n) == Hi(addr) = Limb - 1 /\ Lo(addr) + n - 1 >= Limb

\* C17: read::<N>(addr) and write::<N>(addr, v) return Overflow exactly when
\* addr + N - 1 exceeds 2^32 - 1; otherwise, on pages that allow the access,
\* they succeed (a 1-byte access at 0xFFFFFFFF included); a write that fails
\* leaves every byte as it was.
C17_OverflowRule ==
    [][ IsAccess =>
          LET past    == PastEnd(ret'.addr, ret'.size)
              needed  == IF ret'.call = "write" THEN Write ELSE Read
              allowed == \A k \in 0..(ret'.size - 1) :
                            needed \in PageProt(pages, PageIdxOf(WrappingAdd(ret'.addr, FromNat(k))))
          IN  /\ (ret'.res = Overflow) <=> past
              /\ (~past /\ allowed) => ret'.res = MemOk
              /\ (ret'.addr = BitSizeMax /\ ret'.size = 1 /\ allowed) => ret'.res = MemOk
              /\ (ret'.res # MemOk) => data' = data ]_vars

\* a step that is a call of write_program: the harness's, or a handler's
IsWriteProgram ==
    \/ phase = "Idle" /\ phase' = "Loaded"
    \/ InHandler /\ calls' = calls + 1 /\ ret'.call = "write_program"

\* the number of pages an image of len bytes fills
PagesOf(len) == (len + PAGE_SIZE - 1) \div PAGE_SIZE

\* the image of the program p is in place and the masks are those of an
\* image of its length
ProgramInPlace(p, d, pgs) ==
    /\ [a \in {x \in DOMAIN d : Hi(x) = 0 /\ Lo(x) < ImageLen(p)} |-> d[a]] = Image(p)
    /\ \A idx \in ProbePages :
          PageProt(pgs, idx) =
             IF idx < PagesOf(ImageLen(p)) THEN {Read, Execute} ELSE {Read, Write}

\* C18: after every write_program(bytes), the one of Emulator::new(&[]) and
\* one that replaces a longer image included, the image is at 0..L-1, the
\* pages 0..ceil(L/4096)-1 are Read|Execute (none for L = 0) and every
\* other page is Read|Write.
C18_WriteProgramPages ==
    /\ [](phase = "Idle" => ProgramInPlace(<< >>, data, pages))
    /\ [][ IsWriteProgram => ProgramInPlace(prog'.code, data', pages') ]_vars

\* the mode and the opcode in the bytes at pcv
ModeAt(d, pcv) == ByteAt(d, pcv) \div 64

OpcodeAt(d, pcv) == ByteAt(d, WrappingAdd(pcv, One))

\* at least 8 bytes lie between pcv and the end of the memory
FullView(pcv) == ~AddOverflows(pcv, W(0, 7))

\* C19: when the bytes at pc hold a (mode, opcode) pair that is not in the
\* instruction table, the iteration of run() returns the error
\* UnknownInstruction(mode, opcode) and leaves the registers, gfx, pc, clk
\* and the memory as they were.
C19_UnknownInstruction ==
    [][ (IsRunStep /\ FullView(pc) /\ OpcodeAt(data, pc) \notin KnownOpcodes(ModeAt(data, pc))) =>
          /\ phase' = "Returned"
          /\ result'.out = "Err"
          /\ result'.err = [from |-> "Inst",
                            e |-> [kind |-> "UnknownInstruction",
                                   mode |-> ModeAt(data, pc),
                                   opcode |-> OpcodeAt(data, pc)]]
          /\ gp' = gp /\ gfx' = gfx /\ pc' = pc /\ clk' = clk /\ data' = data
          /\ pages' = pages ]_vars

\* the run of mov t0, 0x12345678 ; push t0 ; <mode 2, opcode 11> has returned
\* UnknownInstruction(2, 11) with t0, sp, pc and clk as the push left them
C19_Witness ==
    /\ phase = "Returned"
    /\ prog.form = "unknown_after"
    /\ result.err = [from |-> "Inst",
                     e |-> [kind |-> "UnknownInstruction", mode |-> 2, opcode |-> 11]]
    /\ gp[T0] = TestAddr
    /\ gp[SP] = W(Limb - 1, Limb - 5)
    /\ pc = W(0, 12)
    /\ clk = [high |-> Zero, low |-> W(0, 3)]

IsHlt(i) == i.mode = 0 /\ i.op_code = OpHlt /\ ~i.has_imm

\* C20: an executed hlt sets the stop flag and leaves pc at the hlt; run()
\* returns at once, Ok carrying as exit code the value of the register the
\* hlt names (0 when it names none); after it has returned nothing more is
\* executed; mov t0, 5 ; mov t1, t0 ; hlt t1 ends with exit code 5, t0 = 5,
\* t1 = 5 and pc at the hlt.
C20_HltExitCode ==
    /\ [][ (Attempts /\ IsHlt(inst')) =>
              /\ stop' /\ pc' = pc /\ gp' = gp /\ clk' = clk
              /\ phase' = "Returned"
              /\ result'.out = "Ok"
              /\ result'.val = GetReg(gp, inst'.a) ]_vars
    /\ [][ phase = "Returned" => UNCHANGED <<gp, gfx, pc, clk, data, pages, result>> ]_vars
    /\ []((prog.form = "exit_code" /\ phase = "Returned") =>
              /\ result.out = "Ok" /\ result.val = W(0, 5)
              /\ gp[T0] = W(0, 5) /\ gp[T1] = W(0, 5)
              /\ pc = W(0, 12))

IsTme(i) == i.mode = 0 /\ i.op_code = OpTme /\ i.has_imm

\* the register indices c and d of a decoded record: the low 5 bits of the
\* immediate bytes 4 and 5
RegC(i) == Byte(i.imm, 0) % NumRegs

RegD(i) == Byte(i.imm, 1) % NumRegs

\* C21: a completed tme naming four distinct registers other than zr leaves
\* bits 0..31 of the timestamp in reg a, bits 32..63 in reg b, bits 64..95
\* in reg c and bits 96..127 in reg d, c and d being the indices in the
\* immediate bytes 4 and 5.
C21_TmeLimbsLowToHigh ==
    [][ (Completes /\ IsTme(inst')
           /\ Cardinality({inst'.a, inst'.b, RegC(inst'), RegD(inst')}) = 4
           /\ ZR \notin {inst'.a, inst'.b, RegC(inst'), RegD(inst')}) =>
          /\ gp'[inst'.a] = prev'.time[4]
          /\ gp'[inst'.b] = prev'.time[3]
          /\ gp'[RegC(inst')] = prev'.time[2]
          /\ gp'[RegD(inst')] = prev'.time[1] ]_vars

\* the monitor thread is at rest: it waits on an empty channel, or has ended
AtRest(mn) == ThreadGone(mn) \/ (mn.thr = "running" /\ mn.req = << >>)

\* a Finished follows its copy, a return its Finished, and nothing is
\* copied that was not asked for
DrawOrder(mn) ==
    /\ mn.returned <= mn.finished
    /\ mn.finished <= mn.copied
    /\ mn.copied <= mn.sent
    /\ mn.rep = mn.finished - mn.returned
    /\ mn.copied = mn.finished + (IF mn.thr = "serving" THEN 1 ELSE 0)

\* C22: draw() is synchronous: it returns only after the monitor thread
\* has copied the framebuffer for that request and sent Finished; every
\* Draw command produces exactly one Finished reply (once the thread is at
\* rest, as many replies were sent as Draws), and no Finished is produced
\* without a Draw.
C22_DrawHandshake ==
    /\ DrawOrder(mon)
    /\ mon.ctl = "idle" => mon.returned = mon.sent /\ mon.copied = mon.sent
    /\ AtRest(mon) => mon.finished = mon.sent

\* C22 (amended): draw() returns only after the thread has copied the
\* framebuffer for that request and sent Finished; every Draw the thread
\* takes from the channel and serves without a failing copy or window call
\* produces exactly one Finished, and none is produced without a Draw.  A
\* Draw queued behind a Stop, or one whose thread has failed, gets no
\* Finished: the thread has then ended, and draw() panics instead of
\* returning.
C22_DrawHandshakeServed ==
    /\ DrawOrder(mon)
    /\ mon.ctl = "idle" => mon.returned = mon.sent /\ mon.copied = mon.sent
    /\ mon.thr = "running" /\ mon.req = << >> => mon.finished = mon.sent
    /\ AtRest(mon) /\ mon.finished < mon.sent =>
          /\ ThreadGone(mon)
          /\ mon.finished = mon.sent - 1
          /\ mon.ctl \in {"waiting", "panicked"}
    /\ mon.ctl = "panicked" => ThreadGone(mon)

C22_Witness ==
    /\ mon.returned = 2
    /\ mon.ctl = "idle"
    /\ mon.vram = <<5, 6, 7, 8>>
    /\ BytesAt(mem, mon.vram_base, 4) = mon.vram

\* e - 1, saturating at 0
EndBefore(e) == IF e = Zero THEN Zero ELSE WrappingSub(e, One)

\* the inclusive range the claim gives for a range argument
ClaimedRange(arg) ==
    CASE arg.form = "addr"         -> <<arg.start, arg.start>>
      [] arg.form = "range"        -> <<arg.start, EndBefore(arg.end)>>
      [] arg.form = "inclusive"    -> <<arg.start, arg.end>>
      [] arg.form = "to"           -> <<Zero, EndBefore(arg.end)>>
      [] arg.form = "to_inclusive" -> <<Zero, arg.end>>
      [] arg.form = "from"         -> <<arg.start, BitSizeMax>>
      [] arg.form = "full"         -> <<Zero, BitSizeMax>>

\* C23: the range a call of change_prot or check_prot works on is the
\* conversion of its argument: a gives a..=a, s..e gives s..=e-1
\* (saturating at 0), s..=e gives s..=e, ..e gives 0..=e-1, ..=e gives
\* 0..=e, s.. gives s..=MAX and .. gives 0..=MAX.
C23_RangeConversions ==
    ret.call \in {"change_prot", "check_prot"} => ret.range = ClaimedRange(ret.arg)

C23_Witness ==
    /\ ret.call = "check_prot"
    /\ ret.arg = RangeArg("range", W(0, 5), Zero)
    /\ ret.range = <<W(0, 5), Zero>>

\* kbrd, draw, pld, pld.w, pld.b, pstr, pstr.w and pstr.b
Reserved(i) == i.mode = 0 /\ i.op_code \in ({OpKbrd, OpDraw} \cup (35..37) \cup (41..43))

\* C24: a reserved instruction (kbrd, draw, pld*, pstr*) that run() has
\* decoded at an executable pc makes run() return the Unsupported error
\* carrying that instruction, and leaves the CPU state and the memory
\* unchanged.
C24_ReservedUnsupported ==
    [][ (Attempts /\ Reserved(inst')) =>
          /\ phase' = "Returned"
          /\ result'.out = "Err"
          /\ result'.err = [from |-> "Cpu", e |-> [kind |-> "UnsupportedInst", inst |-> inst']]
          /\ gp' = gp /\ gfx' = gfx /\ pc' = pc /\ clk' = clk /\ data' = data ]_vars

\* div, idiv, rem or irem with a zero divisor and a non-zero dividend
ZeroDivisor(i, g) ==
    /\ i.mode = 1
    /\ i.op_code \in {OpDiv, OpIdiv, OpRem, OpIrem}
    /\ OperandB(i, g) = Zero
    /\ g[i.a] # Zero

\* C25: div, idiv, rem and irem with a zero divisor and a non-zero dividend
\* make the step fail with the DivByZero error, which run() returns to its
\* caller; the host is never aborted.
C25_DivByZeroError ==
    [][ (Attempts /\ ZeroDivisor(inst', gp)) =>
          /\ phase' = "Returned"
          /\ result'.out = "Err"
          /\ result'.err.from = "Cpu"
          /\ result'.err.e.kind = "DivByZero" ]_vars

\* C26: every record the decoder produces is given back by encoding it
\* (mode in the top two bits of byte 0, I in bit 5, dst in the low five
\* bits, the opcode in byte 1, a and b in bytes 2 and 3, the immediate
\* little-endian in bytes 4..7) and decoding the bytes.
C26_DecodeRoundTrip ==
    [][ (IsRunStep /\ inst' # NoInst) =>
          /\ FromBuf(Encode(inst')).ok
          /\ FromBuf(Encode(inst')).inst = inst' ]_vars

\* a decoded record with an immediate whose four bytes differ, and with
\* dst, a in use
C26_Witness ==
    /\ inst # NoInst
    /\ inst.has_imm
    /\ Cardinality({Byte(inst.imm, k) : k \in 0..3}) = 4
    /\ inst.dst # 0
    /\ inst.c # 0 /\ inst.f # 0

\* C27: the Execute check on the page of pc comes before decoding: an
\* iteration of run() at a pc whose page lacks Execute returns the Execute
\* page fault whatever bytes lie at pc, also bytes whose (mode, opcode)
\* pair is not in the instruction table.
C27_ExecuteCheckBeforeDecode ==
    [][ (IsRunStep /\ Execute \notin PageProt(pages, PageIdxOf(pc))) =>
          /\ phase' = "Returned"
          /\ result'.out = "Err"
          /\ result'.err = [from |-> "Mem", e |-> PageFault({Execute})] ]_vars

\* C28: a push whose sp - 4 wraps below 0 fails with StackOverflow(pc), and
\* a pop whose sp + 4 wraps past 2^32 - 1 fails with StackUnderflow(sp);
\* neither completes with a wrapped sp.
C28_StackWrapIsError ==
    [][ /\ (Attempts /\ inst'.mode = 3 /\ inst'.op_code = OpPush
              /\ ULt(gp[SP], FromNat(WordSize))) =>
             /\ phase' = "Returned"
             /\ result'.out = "Err"
             /\ result'.err.from = "Cpu"
             /\ result'.err.e = [kind |-> "StackOverflow", pc |-> pc]
        /\ (Attempts /\ inst'.mode = 3 /\ inst'.op_code = OpPop
              /\ AddOverflows(gp[SP], FromNat(WordSize))) =>
             /\ phase' = "Returned"
             /\ result'.out = "Err"
             /\ result'.err.from = "Cpu"
             /\ result'.err.e = [kind |-> "StackUnderflow", sp |-> gp[SP]] ]_vars

\* the access of n bytes at addr ends at or below 2^32 - 1
Fits(addr, n) == ~AddOverflows(addr, FromNat(n - 1))

\* v as an unsigned integer of n bytes
LowBytes(v, n) ==
    CASE n = 1 -> W(0, Lo(v) % 256)
      [] n = 2 -> W(0, Lo(v))
      [] n = 4 -> v

\* C29: for N in {1, 2, 4} and every addr with addr + N - 1 <= 2^32 - 1,
\* addr = 0 included, write<N>(addr, v) stores all N bytes little-endian and
\* a read<N>(addr) that follows returns v; memwrite(addr, buf) followed by
\* a memcpy(addr, buf') of the same length gives buf' = buf.
C29_MemoryRoundTrip ==
    [][ /\ (ret'.call = "mmu_write" /\ calls' = calls + 1 /\ Fits(ret'.addr, ret'.size)) =>
             /\ ret'.res = MemOk
             /\ BytesAt(mem', ret'.addr, ret'.size)
                  = [k \in 1..ret'.size |-> Byte(ret'.val, k - 1)]
        /\ (/\ ret.call = "mmu_write" /\ ret.res = MemOk
            /\ ret'.call = "mmu_read" /\ calls' = calls + 1
            /\ ret'.addr = ret.addr /\ ret'.size = ret.size) =>
             /\ ret'.res = MemOk
             /\ ret'.val = LowBytes(ret.val, ret.size)
        /\ (/\ ret.call = "memwrite" /\ ret.res = MemOk
            /\ ret'.call = "memcpy" /\ calls' = calls + 1
            /\ ret'.addr = ret.addr /\ ret'.size = ret.size) =>
             /\ ret'.res = MemOk
             /\ ret'.val = ret.val ]_vars

\* bit 5 of a byte
Bit5(byte) == (byte \div 32) % 2 = 1

\* C30: the record decoded from the eight bytes at pc has mode = the top
\* two bits of byte 0, has_imm = bit 5 of byte 0, dst = the low five bits
\* of byte 0, the opcode of byte 1, a and b = the low five bits of bytes 2
\* and 3, and, with has_imm set, imm = the little-endian value of bytes
\* 4..7 and c, d, e, f = the low five bits of those bytes; without it imm
\* and c, d, e, f are 0.  Every register index is in 0..31.
C30_DecoderFields ==
    [][ (IsRunStep /\ FullView(pc) /\ inst' # NoInst) =>
          LET byte(k) == ByteAt(data, WrappingAdd(pc, FromNat(k)))
              I       == Bit5(byte(0))
              low5(k) == IF I THEN byte(k) % 32 ELSE 0
          IN  /\ inst'.mode = byte(0) \div 64
              /\ inst'.has_imm = I
              /\ inst'.dst = byte(0) % 32
              /\ inst'.op_code = byte(1)
              /\ inst'.a = byte(2) % 32
              /\ inst'.b = byte(3) % 32
              /\ inst'.imm = IF I THEN W(byte(7) * 256 + byte(6), byte(5) * 256 + byte(4))
                             ELSE Zero
              /\ inst'.c = low5(4) /\ inst'.d = low5(5)
              /\ inst'.e = low5(6) /\ inst'.f = low5(7)
              /\ {inst'.dst, inst'.a, inst'.b, inst'.c, inst'.d, inst'.e, inst'.f} \subseteq 0..31
    ]_vars

\* decoded: an instruction without an immediate whose bytes 2 and 3 have
\* high bits set and whose bytes 4..7 are not all zero
C30_Witness ==
    /\ inst # NoInst
    /\ ~inst.has_imm
    /\ inst.imm = Zero /\ inst.c = 0
    /\ ByteAt(data, WrappingAdd(prev.pc, W(0, 2))) >= 32
    /\ ByteAt(data, WrappingAdd(prev.pc, W(0, 3))) >= 32
    /\ ByteAt(data, WrappingAdd(prev.pc, W(0, 5))) # 0
    /\ inst.a = T0 /\ inst.b = 31

\* C31: the range a conversion hands to change_prot or check_prot has
\* end >= start, for every argument of every form, s..e with e <= s and ..0
\* included.
C31_RangeEndNotBelowStart ==
    ret.call \in {"change_prot", "check_prot"} => ULe(ret.range[1], ret.range[2])

\* a Stop waits in the command channel
StopQueued(mn) == \E k \in 1..Len(mn.req) : mn.req[k].cmd = "Stop"

\* what the thread has done for its commands
Handled(mn) == <<mn.copied, mn.finished, mn.addr, mn.vram_base, mn.vram>>

\* C32: once stop() has sent Stop the monitor thread eventually leaves its
\* loop and ends; from the moment it takes the Stop it handles no command,
\* those queued behind the Stop included; and stop() returns at once, never
\* waiting for a reply.
C32_StopEndsThread ==
    /\ StopQueued(mon) ~> ThreadGone(mon)
    /\ [][ (mon.thr = "running" /\ mon.req # << >> /\ Head(mon.req).cmd = "Stop"
              /\ mon'.thr # mon.thr) =>
             mon'.thr = "exited" /\ Handled(mon') = Handled(mon) ]_vars
    /\ [][ ThreadGone(mon) =>
             /\ mon'.thr = mon.thr /\ mon'.req = mon.req
             /\ Handled(mon') = Handled(mon) ]_vars
    /\ [][ (StopQueued(mon') /\ ~StopQueued(mon)) => mon'.ctl = "idle" ]_vars

\* the thread has exited on a Stop and left the Update behind it unhandled
C32_Witness ==
    /\ mon.thr = "exited"
    /\ Len(mon.req) = 2
    /\ mon.req[1].cmd = "Stop"
    /\ mon.req[2].cmd = "Update"
    /\ mon.addr # mon.req[2].base
    /\ mon.ctl = "idle"

\* the addresses whose byte a step changes
ChangedBytes == {a \in DOMAIN mem \cup DOMAIN mem' : ByteAt(mem, a) # ByteAt(mem', a)}

\* the mask of the Mmu page that holds addr
MmuProt(addr) == PageProt(mmu_pages, PageIdxOf(addr))

\* the addresses of the n bytes from addr on
AccessBytes(addr, n) == {WrappingAdd(addr, FromNat(i)) : i \in 0..(n - 1)}

\* C33: a checked write::<N> changes no byte of a page whose mask lacks Write,
\* and a checked read::<N> that returns a value took none of its N bytes from a
\* page whose mask lacks Read, also when the N bytes span a page boundary.
C33_CheckedAccessRespectsPages ==
    [][ /\ ret'.call = "write" => \A a \in ChangedBytes : Write \in MmuProt(a)
        /\ (ret'.call = "read" /\ ret'.res = MemOk) =>
              \A a \in AccessBytes(ret'.addr, ret'.size) : Read \in MmuProt(a) ]_vars

\* the iteration handed the instruction it decoded to Cpu::process: run()
\* did not leave with an error of the decoder or of its own check_prot
Executed ==
    /\ IsRunStep
    /\ inst' # NoInst
    /\ \A e \in {result'.err} : "from" \in DOMAIN e => e.from = "Cpu"

\* C34: run() executes an instruction only when every one of its encoded
\* bytes, 4 or 8 from pc on, lies in a page whose mask has Execute, also when
\* the instruction straddles a page boundary.
C34_ExecutedBytesExecutable ==
    [][ Executed =>
          \A a \in AccessBytes(pc, InstSize(inst')) :
             Execute \in PageProt(pages, PageIdxOf(a)) ]_vars

\* the guard of a finished run is dropped
IsReset == phase \in {"Returned", "Panicked"} /\ phase' = "Idle"

\* C35: after the harness has reset the shared emulator it is in the state
\* Emulator::new left it in: every register at its default (sp = 2^32 - 1),
\* pc = 0, gfx = 0, clk = 0 and every byte of the memory 0.
C35_ResetEquivalence ==
    [][ IsReset =>
          /\ gp' = RegistersDefault
          /\ GetReg(gp', SP) = BitSizeMax
          /\ pc' = Zero
          /\ gfx' = Zero
          /\ clk' = [high |-> Zero, low |-> Zero]
          /\ data' = NewData ]_vars

\* the thread is in its loop, with a window open for mon.args
InLoop(mn) == mn.thr \in {"running", "serving"}

\* C36: while the monitor thread is in its loop its pixel buffer holds exactly
\* width x height pixels (4 bytes each) of the current MonitorArgs, also
\* after an Update has replaced the arguments.
C36_VramMatchesArgs ==
    InLoop(mon) => Len(mon.vram) = 4 * mon.args.width * mon.args.height

\* C37: a draw() that waits for its reply does not wait for ever: it returns
\* with the Finished, or, once the monitor thread has ended (after a Stop, or
\* after a failure in its start-up or in a Draw or Update) with no reply left
\* for it, it fails; while the thread lives it ends only with a reply.
C37_DrawNeverHangs ==
    /\ (mon.ctl = "waiting") ~> (mon.ctl \in {"idle", "panicked"})
    /\ [][ (mon.ctl = "waiting" /\ mon'.ctl # "waiting") =>
             IF mon.rep > 0 THEN mon'.ctl = "idle" /\ mon'.returned = mon.returned + 1
             ELSE ThreadGone(mon) /\ mon'.ctl = "panicked" ]_vars

\* a Draw was queued behind a Stop: the thread has exited and the draw()
\* that waited for it has failed
C37_Witness ==
    /\ mon.thr = "exited"
    /\ mon.ctl = "panicked"
    /\ mon.sent = mon.returned + 1
    /\ mon.finished = mon.returned

\* Cpu::process returned an error to run()
StepFailed ==
    /\ IsRunStep
    /\ result'.out = "Err"
    /\ \A e \in {result'.err} : "from" \in DOMAIN e /\ e.from = "Cpu"

\* C38: when the step of the Cpu returns an error, the registers (sp with
\* them), pc, gfx and the memory are as they were before the instruction,
\* and run() adds nothing to clk for it.
C38_FailedStepAtomic ==
    [][ StepFailed =>
          /\ gp' = gp
          /\ pc' = pc
          /\ gfx' = gfx
          /\ data' = data
          /\ clk' = clk ]_vars

\* lsl, lsr or asr
IsShift(i) == i.mode = 1 /\ i.op_code \in {OpLsl, OpLsr, OpAsr}

\* C39: lsl, lsr and asr complete for every shift amount in 0..2^32 - 1,
\* register or immediate, and never abort the host; for the amounts 0..31
\* lsl and lsr shift zero bits in and asr repeats the sign bit of reg a.
C39_ShiftsDefined ==
    [][ (Attempts /\ IsShift(inst')) =>
          LET n == OperandB(inst', gp)
          IN  /\ phase' = "Running"
              /\ (Hi(n) = 0 /\ Lo(n) < 32) =>
                    WritesDst(CASE inst'.op_code = OpLsl -> ShlN(gp[inst'.a], Lo(n))
                                [] inst'.op_code = OpLsr -> ShrN(gp[inst'.a], Lo(n))
                                [] inst'.op_code = OpAsr -> SarN(gp[inst'.a], Lo(n))) ]_vars

====
